---- MODULE Spec2Model ----
(***************************************************************************)
(* The bootloader protocol client of src/script.js (class ESP32Flasher):   *)
(* one handleFlash session talking to a device over a Web Serial port.     *)
(*                                                                         *)
(* The client is a sequential async program; every await on a response is  *)
(* a position of pc.  The device and the stream reader are the             *)
(* environment: the device sends chunks of bytes, a timer ends a wait, the *)
(* stream may close.  A readResponse call that ends by timeout leaves its  *)
(* reader.read() outstanding (script.js:1417 is never cancelled), so the   *)
(* reader keeps a queue of reads, of which at most one belongs to the      *)
(* readResponse call the client is awaiting.                               *)
(***************************************************************************)
EXTENDS Integers, Sequences, FiniteSets, TLC

(***************************************************************************)
(* Bounds of the model.                                                    *)
(***************************************************************************)
\* reads left outstanding by timed-out readResponse calls up to which the
\* device sends any of its chunks; with more of them outstanding it is a
\* device that answers late: it sends nothing, or success frames for the
\* command on the wire
MaxStale == 3
\* chunks not ending in 0xC0 that one readResponse call receives
MaxPartial == 1
\* chunks the stream holds while no read is outstanding
MaxBuffered == 1
\* handleFlash invocations in progress at a time on one open port
MaxInvocations == 2
\* handleFlash invocations that start while another one is running, where
\* the control lines are followed call by call
MaxLaterInvocations == 2
\* lengths of the files fetched by loadFirmwareFiles: hbd.bin,
\* phy_init_data.bin, assets.bin
HbdSize == 2048
PhyInitSize == 1024
AssetsSize == 512
\* length of an application whose erase takes LargeEraseBlocks blocks
LargeHbdSize == 589825

(***************************************************************************)
(* Program constants.                                                      *)
(***************************************************************************)
SLIP_END == 192
SLIP_ESC == 219
SLIP_ESC_END == 220
SLIP_ESC_ESC == 221
CMD_FLASH_BEGIN == 2
CMD_FLASH_DATA == 3
CMD_FLASH_END == 4
CMD_SYNC == 8
CMD_READ_REG == 10
maxResetAttempts == 3
SyncCycles == 5
SyncAttempts == 7
maxRetries == 3
WRITE_BLOCK_ATTEMPTS == 3
FLASH_END_ATTEMPTS == 3
BeginPacketSize == 1024
EraseBlock == 65536
LargeEraseBlocks == 10
otaDataSize == 8192
otaChunkSize == 1024
otaDataPartition == 9502720
MemTestReads == 2
ResponsivenessReads == 3

ota0Partition == 1114112
maxOtaSize == 7340032
AggressiveCycles == 3
MaxDataTimeout == 60000
FlashBeginBase == 10000
FlashBeginPerBlock == 2000
BaseTimeout == 3000
SyncTimeout == 100
Mega == 1024 * 1024

CeilDiv(a, b) == (a + b - 1) \div b

(***************************************************************************)
(* Framing codec and response classification (slipDecode).                 *)
(***************************************************************************)
RECURSIVE Unslip(_, _, _)
\* the byte loop of slipDecode: frame markers are skipped, 0xDB sets the
\* escape flag, the byte after it is substituted
Unslip(data, i, escaped) ==
    IF i > Len(data) THEN <<>>
    ELSE LET byte == data[i] IN
         IF byte = SLIP_END THEN Unslip(data, i + 1, escaped)
         ELSE IF byte = SLIP_ESC THEN Unslip(data, i + 1, TRUE)
         ELSE IF escaped
              THEN << (IF byte = SLIP_ESC_END THEN SLIP_END
                       ELSE IF byte = SLIP_ESC_ESC THEN SLIP_ESC ELSE byte) >>
                   \o Unslip(data, i + 1, FALSE)
              ELSE <<byte>> \o Unslip(data, i + 1, FALSE)

secureBootErrors == {262, 261, 259, 264, 266}

isSecureBootBlockingError(statusCode) == statusCode \in secureBootErrors

\* mutation: the 16-bit status built with the second-to-last byte as the
\* high byte
slipDecode_HighByteFirst(data) ==
    LET result == Unslip(data, 1, FALSE)
        n == Len(result)
    IN  IF n >= 8 /\ result[1] = 1 /\ n >= 8 + (result[3] + 256 * result[4]) + 2
           /\ result[n - 1] # 0
        THEN IF isSecureBootBlockingError(256 * result[n - 1] + result[n])
             THEN [thrown |-> "sb", bytes |-> <<>>]
             ELSE [thrown |-> "fail", bytes |-> <<>>]
        ELSE [thrown |-> "none", bytes |-> result]

\* slipDecode: [thrown, bytes]; thrown is "none" when the decoded bytes are
\* returned, "sb" for SECURE_BOOT_BLOCKED, "fail" for the generic status error
slipDecode(data) ==
    LET result == Unslip(data, 1, FALSE)
        n == Len(result)
    IN  IF n >= 8
        THEN LET direction == result[1]
                 size == result[3] + 256 * result[4]
             IN  IF direction = 1 /\ n >= 8 + size + 2
                 THEN LET statusByte1 == result[n - 1]
                          statusByte2 == result[n]
                          status16 == statusByte1 + 256 * statusByte2
                      IN  IF statusByte1 # 0
                          THEN IF isSecureBootBlockingError(status16)
                               THEN [thrown |-> "sb", bytes |-> <<>>]
                               ELSE [thrown |-> "fail", bytes |-> <<>>]
                          ELSE [thrown |-> "none", bytes |-> result]
                 ELSE [thrown |-> "none", bytes |-> result]
        ELSE [thrown |-> "none", bytes |-> result]

\* what the promise of readResponse settles with, as its callers see it:
\* "ok4"/"ok0" resolved with at least / fewer than 4 bytes, else the rejection
Settled(data) ==
    LET d == slipDecode(data)
    IN  IF d.thrown # "none" THEN d.thrown
        ELSE IF Len(d.bytes) >= 4 THEN "ok4" ELSE "ok0"

Resolved(r) == r \in {"ok4", "ok0"}

\* the opcode of the bytes readResponse combined, when they are one response
\* frame of direction 0x01 with a success status, and 0 when they are not
ResponseOpcode(data) ==
    LET result == Unslip(data, 1, FALSE)
        n == Len(result)
    IN  IF /\ n >= 10
           /\ result[1] = 1
           /\ n >= 8 + (result[3] + 256 * result[4]) + 2
           /\ result[n - 1] = 0
        THEN result[2]
        ELSE 0

(***************************************************************************)
(* The device: the chunks it may put on the stream.                        *)
(***************************************************************************)
\* a response frame without data: direction 1, opcode, size 0, value 0,
\* two status bytes, between frame markers
RespFrame(op, s1, s2) == <<SLIP_END, 1, op, 0, 0, 0, 0, 0, 0, s1, s2, SLIP_END>>

OkFrame(op) == RespFrame(op, 0, 0)
\* status 0x0106 (operation not supported): a secure-boot rejection
SbFrame(op) == RespFrame(op, 6, 1)
\* status 0x0001: not in the secure-boot table
FailFrame(op) == RespFrame(op, 1, 0)
\* boot-log text, no frame marker at its end
NoiseChunk == <<69, 83, 80>>
\* an empty frame
EmptyFrame == <<SLIP_END, SLIP_END>>

EndsFrame(chunk) == chunk[Len(chunk)] = SLIP_END

VARIABLES
    pc,        \* position of the client in handleFlash and its callees
    stack,     \* return positions of the calls in progress
    loc,       \* the local variables of the functions in progress
    res,       \* how the last readResponse call settled
    outcome,   \* "none", "success" (flash-success shown) or "failed" (alert)
    dev,       \* "alive" or "closed" (the stream has ended)
    staleB,    \* outstanding reads of ended readResponse calls, ahead of the awaited one
    staleA,    \* the same, queued behind the awaited one
    active,    \* a readResponse call is being awaited (its timer is armed)
    acc,       \* bytes of the chunks the awaited readResponse call has received
    nPartial,  \* number of those chunks
    buf,       \* chunks the stream holds, no read being outstanding
    wire       \* what was written to the device (observation of writer.write)

vars == <<pc, stack, loc, res, outcome, dev, staleB, staleA, active, acc,
          nPartial, buf, wire>>

envVars == <<dev, staleB, staleA, active, acc, nPartial, buf>>

(***************************************************************************)
(* The list esp32FlashFirmware receives: what loadFirmwareFiles builds     *)
(* from firmwareConfig.                                                     *)
(***************************************************************************)
useOtaUpdate == TRUE
romOnlyMode == TRUE
\* this.secureBootEnabled: true from the constructor (17), false during the
\* delay of handleSecureBootFlashRetry(1) (990-998)
secureBootEnabled == loc.secureBootEnabled

\* firmwareConfig['v1.36.0.16433'].parts
firmwareParts ==
    << [offset |-> 0, skipInOta |-> TRUE, isApplication |-> FALSE],
       [offset |-> 40960, skipInOta |-> TRUE, isApplication |-> FALSE],
       [offset |-> 65536, skipInOta |-> FALSE, isApplication |-> TRUE],
       [offset |-> 9502720, skipInOta |-> TRUE, isApplication |-> FALSE],
       [offset |-> 9510912, skipInOta |-> FALSE, isApplication |-> FALSE],
       [offset |-> 9519104, skipInOta |-> FALSE, isApplication |-> FALSE] >>

\* a configuration of two parts without flags: a provider of two regions, at
\* 0x0 and at 0x10000
TwoRegionParts ==
    << [offset |-> 0, skipInOta |-> FALSE, isApplication |-> FALSE],
       [offset |-> 65536, skipInOta |-> FALSE, isApplication |-> FALSE] >>

\* the parts that the loop of loadFirmwareFiles does not skip
FlashedParts(parts) == SelectSeq(parts, LAMBDA part : ~(useOtaUpdate /\ part.skipInOta))

\* loadFirmwareFiles over config.parts: sizes[i] is the length of the i-th
\* file fetched
loadFirmwareFiles(parts, sizes) ==
    [ i \in 1..Len(FlashedParts(parts)) |->
        [ size |-> sizes[i],
          address |-> IF useOtaUpdate /\ FlashedParts(parts)[i].isApplication
                      THEN ota0Partition
                      ELSE FlashedParts(parts)[i].offset,
          isApplication |-> FlashedParts(parts)[i].isApplication ] ]

\* what the session flashes, by loc.firmware: "small" and "large" are
\* firmwareConfig as coded with files of the bounded lengths, the application
\* of "large" being one whose erase is a large one (10 blocks); "two-region"
\* is the two-part configuration with files of 4096 and 2048 bytes
Provided(firmware) ==
    CASE firmware = "small" ->
           [parts |-> firmwareParts, sizes |-> <<HbdSize, PhyInitSize, AssetsSize>>]
      [] firmware = "large" ->
           [parts |-> firmwareParts, sizes |-> <<LargeHbdSize, PhyInitSize, AssetsSize>>]
      [] firmware = "two-region" ->
           [parts |-> TwoRegionParts, sizes |-> <<4096, 2048>>]

\* handleFlash: firmwareData = await this.loadFirmwareFiles() (267)
firmwareData ==
    loadFirmwareFiles(Provided(loc.firmware).parts, Provided(loc.firmware).sizes)

NoCmd ==
    [op |-> 0, seq |-> 0, len |-> 0, flag |-> 0, address |-> 0, region |-> 0,
     eraseSize |-> 0, numPackets |-> 0, packetSize |-> 0, encryptedMode |-> 0]

Regions == Len(firmwareData)

\* index of the OTA data region written by updateOtaDataPartition
OtaRegion == Regions + 1

(***************************************************************************)
(* Pure helpers of the session.                                            *)
(***************************************************************************)

getAdaptiveChunkSize(fileSize, isOtaOperation) ==
    IF isOtaOperation /\ useOtaUpdate
    THEN IF fileSize >= 3 * Mega THEN 2048
         ELSE IF fileSize >= Mega THEN 4096
         ELSE 1024
    ELSE IF romOnlyMode \/ secureBootEnabled
         THEN IF fileSize >= 3 * Mega THEN 256
              ELSE IF 2 * fileSize >= 3 * Mega THEN 384
              ELSE 512
         ELSE IF fileSize >= 2 * Mega THEN 512
              ELSE 1024

Max(a, b) == IF a > b THEN a ELSE b

\* a time: ms whole milliseconds and frac / (Mega \div 2) of a millisecond
Ms(n) == [ms |-> n, frac |-> 0]

TimeLeq(a, b) == a.ms < b.ms \/ (a.ms = b.ms /\ a.frac <= b.frac)

\* the time t * num / den
Times(t, num, den) ==
    LET whole == t.ms * num + (t.frac * num) \div (Mega \div 2)
        part == (t.frac * num) % (Mega \div 2)
    IN  [ms |-> whole \div den,
         frac |-> ((whole % den) * (Mega \div 2) + part) \div den]

\* mbSize * timeoutPerMb, mbSize = dataSize / 2^20, computed in two parts
\* (both rates are multiples of 8) to stay within the range of the integers
PerMbTime(dataSize, timeoutPerMb) ==
    LET rest == (dataSize % Mega) * (timeoutPerMb \div 8)
    IN  [ms |-> (dataSize \div Mega) * timeoutPerMb + rest \div (Mega \div 8),
         frac |-> 4 * (rest % (Mega \div 8))]

\* mutation: the fixed FLASH_BEGIN timeout, whatever the erase size
getEsptoolTimeout_Flat(operation, eraseBlocks, dataSize) == Ms(FlashBeginBase)

getEsptoolTimeout(operation, eraseBlocks, dataSize) ==
    IF operation = "FLASH_BEGIN"
    THEN Ms(Max(FlashBeginBase, FlashBeginBase + eraseBlocks * FlashBeginPerBlock))
    ELSE IF operation = "FLASH_DATA"
    THEN IF dataSize > 0
         THEN LET perMb == PerMbTime(dataSize,
                                     IF secureBootEnabled THEN 15000 ELSE 8000)
                  calculatedTimeout == [perMb EXCEPT !.ms = BaseTimeout + @]
              IN  IF TimeLeq(calculatedTimeout, Ms(BaseTimeout))
                  THEN Ms(BaseTimeout)
                  ELSE calculatedTimeout
         ELSE Ms(BaseTimeout)
    ELSE IF operation = "SYNC" THEN Ms(SyncTimeout)
    ELSE Ms(BaseTimeout)

\* mutation: the flag follows the parameter instead of inverting it
RebootFlag_NotInverted(reboot) == IF reboot THEN 1 ELSE 0

\* esp32FlashEnd: rebootFlag = reboot ? 0 : 1
RebootFlag(reboot) == IF reboot THEN 0 ELSE 1

Min(a, b) == IF a < b THEN a ELSE b

SyncCmd == [NoCmd EXCEPT !.op = CMD_SYNC, !.len = 36]

ReadRegCmd == [NoCmd EXCEPT !.op = CMD_READ_REG, !.len = 4]

\* esp32FlashBegin: the fields of the FLASH_BEGIN payload
BeginCmd(size, offset, region) ==
    [NoCmd EXCEPT !.op = CMD_FLASH_BEGIN, !.len = size, !.address = offset,
                  !.region = region,
                  !.eraseSize = CeilDiv(size, EraseBlock) * EraseBlock,
                  !.numPackets = CeilDiv(size, BeginPacketSize),
                  !.packetSize = BeginPacketSize,
                  !.encryptedMode = IF secureBootEnabled THEN 1 ELSE 0]

\* esp32FlashData: data length and sequence number of the 16-byte header
DataCmd(length, sequence, region) ==
    [NoCmd EXCEPT !.op = CMD_FLASH_DATA, !.len = length, !.seq = sequence,
                  !.region = region]

EndCmd(reboot) == [NoCmd EXCEPT !.op = CMD_FLASH_END, !.len = 4, !.flag = RebootFlag(reboot)]

(***************************************************************************)
(* Initial state: the flasher constructed, the port selected.              *)
(***************************************************************************)
InitLoc ==
    [ resetAttempt |-> 0, connectionCycle |-> 0, syncAttempt |-> 0,
      fileIndex |-> 0, retryCount |-> 0, size |-> 0, chunkSize |-> 0,
      sequence |-> 0, offset |-> 0, attempt |-> 0, reboot |-> FALSE,
      step |-> 0, memOk |-> TRUE, thrown |-> "none",
      bSize |-> 0, bOffset |-> 0, region |-> 0,
      command |-> NoCmd, hfSyncs |-> 0, syncWrites |-> 0, syncResets |-> 0,
      waveform |-> "none", slow |-> FALSE,
      portOpen |-> FALSE, readerLocked |-> FALSE, writerLocked |-> FALSE,
      provider |-> "unread", recovering |-> 0, cleanup |-> "none",
      firmware |-> "small",
      secureBootEnabled |-> TRUE, originalSecureBoot |-> TRUE ]

InitWire ==
    [ last |-> NoCmd, awaited |-> TRUE, pipelined |-> FALSE, devSent |-> FALSE,
      heard |-> "other", clean |-> TRUE, owed |-> 0, log |-> <<>>,
      begun |-> 0, beginCount |-> 0, ended |-> 0, seqs |-> <<>>,
      writes |-> 0, announced |-> NoCmd, got |-> 0, afterReboot |-> 0,
      syncHeard |-> "other" ]

\* loc.provider is what loadFirmwareFiles found: "ok" every file of the
\* selected version, "missing" no configuration for the version or a file
\* that does not load, "unread" before it has run.  loc.cleanup is the
\* position of a forceDeviceReboot, cleanupAfterReboot or esp32HardReset call
\* in progress: "reboot" the control lines were driven, "released" the locks
\* of the reader and the writer were released and the port is not closed yet

\* the page loaded and a port selected, the session flashing `firmware`
InitOf(firmware) ==
    /\ pc = "idle"
    /\ stack = <<>>
    /\ loc = [InitLoc EXCEPT !.firmware = firmware]
    /\ res = "none"
    /\ outcome = "none"
    /\ dev = "alive"
    /\ staleB = 0
    /\ staleA = 0
    /\ active = FALSE
    /\ acc = <<>>
    /\ nPartial = 0
    /\ buf = <<>>
    /\ wire = InitWire

Init == InitOf("small")

\* the session issues reads and writes: from the opening of the port to the
\* catch block or the success message of handleFlash
Running == pc \notin {"idle", "hf_catch", "done"}

(***************************************************************************)
(* Observation of writer.write.                                            *)
(***************************************************************************)
\* wire after `await this.writer.write(command)`
Written(cmd) ==
    [wire EXCEPT
       !.last = cmd,
       !.awaited = FALSE,
       !.heard = IF cmd.op = CMD_FLASH_DATA
                    /\ (wire.seqs = <<>> \/ wire.seqs[Len(wire.seqs)] # cmd.seq)
                 THEN "nothing"
                 ELSE IF cmd.op \in {CMD_FLASH_DATA, CMD_SYNC} /\ wire.heard = "nothing"
                      THEN "nothing"
                      ELSE "other",
       !.pipelined = @ \/ ~wire.awaited,
       !.owed = IF wire.clean THEN @ + 1 ELSE 0,
       !.log = IF wire.clean THEN Append(@, cmd) ELSE <<>>,
       !.begun = IF cmd.op = CMD_FLASH_BEGIN THEN cmd.region ELSE @,
       !.beginCount = IF cmd.op # CMD_FLASH_BEGIN THEN @
                      ELSE IF cmd.region = wire.begun THEN @ + 1 ELSE 1,
       !.seqs = IF cmd.op = CMD_FLASH_BEGIN THEN <<>>
                ELSE IF cmd.op = CMD_FLASH_DATA
                        /\ (@ = <<>> \/ @[Len(@)] # cmd.seq)
                     THEN Append(@, cmd.seq)
                     ELSE @,
       \* command frames written after a FLASH_END with the reboot flag
       !.afterReboot = IF @ > 0 \/ (wire.last.op = CMD_FLASH_END
                                     /\ wire.last.flag = RebootFlag(TRUE))
                       THEN @ + 1 ELSE @,
       \* no frame has been received for this command yet
       !.got = 0,
       \* what the device has sent since the esp32Sync call in progress
       \* began, observed for the calls of the bootloader-entry loop (240)
       !.syncHeard = IF pc = "sy_write" /\ Head(stack) = "hf_sync_ret"
                        /\ (loc.syncWrites = 0 \/ wire.syncHeard = "nothing")
                     THEN "nothing" ELSE "other",
       \* the latest FLASH_BEGIN: the layout announced for the open region
       !.announced = IF cmd.op = CMD_FLASH_BEGIN THEN cmd ELSE @,
       \* how many times the frame of the latest chunk has been written
       !.writes = IF cmd.op = CMD_FLASH_BEGIN THEN 0
                  ELSE IF cmd.op # CMD_FLASH_DATA THEN @
                  ELSE IF wire.seqs = <<>> \/ wire.seqs[Len(wire.seqs)] # cmd.seq
                       THEN 1
                       ELSE @ + 1 ]

\* the device or the timer has acted: the session is no longer the one in
\* which every command was answered with success and nothing else
Unclean(w) == [w EXCEPT !.clean = FALSE, !.owed = 0, !.log = <<>>]

\* the first reader.read() of a readResponse call (script.js:1417): done when
\* the stream has ended and holds no chunk
StartRead ==
    IF dev = "closed" /\ buf = <<>>
    THEN /\ res' = "closed"
         /\ active' = FALSE
    ELSE /\ res' = "pending"
         /\ active' = TRUE

\* `await this.writer.write(command)`: the frame is written and the client
\* is suspended until the write completes; the readResponse call that
\* follows it is the step readResponseCall
WriteRead(cmd) ==
    /\ wire' = Written(cmd)
    /\ res' = "writing"
    /\ UNCHANGED <<dev, staleB, staleA, active, acc, nPartial, buf>>

\* the client is suspended in a write or in a readResponse call
Awaiting == active \/ res = "writing"

\* the write completed: readResponse(timeout) arms its timer and issues its
\* first reader.read(), behind the reads that are still outstanding
readResponseCall ==
    /\ res = "writing"
    /\ StartRead
    /\ acc' = <<>>
    /\ nPartial' = 0
    /\ wire' = [wire EXCEPT !.awaited = (dev = "closed" /\ buf = <<>>)]
    /\ UNCHANGED <<pc, stack, loc, outcome, dev, staleB, staleA, buf>>

(***************************************************************************)
(* readResponse as the environment drives it.                              *)
(***************************************************************************)
\* the chunk reaches the readChunk of the awaited readResponse call
Receive(chunk) ==
    IF EndsFrame(chunk)
    THEN /\ res' = Settled(acc \o chunk)
         /\ active' = FALSE
         /\ acc' = <<>>
         /\ nPartial' = 0
    ELSE /\ res' = res
         /\ active' = TRUE
         /\ acc' = acc \o chunk
         /\ nPartial' = nPartial + 1

\* what the device has sent since the first transmission of the chunk being
\* written: nothing, only a success frame for the transmission now awaited,
\* or anything else
Heard(chunk) ==
    IF wire.heard = "nothing" /\ active /\ wire.last.op = CMD_FLASH_DATA
          /\ chunk = OkFrame(CMD_FLASH_DATA)
    THEN "ok" ELSE "other"

\* what the device has sent since the esp32Sync call of the bootloader-entry
\* loop began: nothing, only a success frame to Sync while the attempt
\* written last is awaited, or anything else
SyncHeard(chunk) ==
    IF wire.syncHeard = "nothing" /\ active /\ pc = "sy_wait"
          /\ chunk = OkFrame(CMD_SYNC)
    THEN "ok" ELSE "other"

\* the device's answer to the command on the wire, as the clean session counts it
Answered(chunk) ==
    IF wire.clean /\ wire.owed > 0 /\ chunk = OkFrame(wire.last.op)
    THEN [wire EXCEPT !.owed = @ - 1, !.devSent = TRUE, !.heard = Heard(chunk),
                      !.syncHeard = SyncHeard(chunk)]
    ELSE [Unclean(wire) EXCEPT !.devSent = TRUE, !.heard = Heard(chunk),
                               !.syncHeard = SyncHeard(chunk)]

\* the opcode of a response that is not one to the command `op`: a Sync
\* reply, or a FLASH_DATA reply when the command is a Sync
OtherOpcode(op) == IF op = CMD_SYNC THEN CMD_FLASH_DATA ELSE CMD_SYNC

\* a success frame for the command on the wire or of another opcode, a
\* rejection, boot-log text, an empty frame
DevChunks ==
    LET op == IF wire.last.op = 0 THEN CMD_SYNC ELSE wire.last.op
    IN  IF staleB + staleA > MaxStale
        THEN {OkFrame(op)}
        ELSE {OkFrame(op), OkFrame(OtherOpcode(op)), SbFrame(op), FailFrame(op),
              NoiseChunk, EmptyFrame}

\* the device puts a chunk on the stream; the oldest outstanding read gets it.
\* With no read outstanding the stream holds the chunk for the next
\* readResponse call
DeviceSend ==
    /\ Running
    /\ dev = "alive"
    /\ \E chunk \in DevChunks :
         \/ /\ staleB > 0
            \* an ended readResponse call's readChunk consumes it; without a
            \* frame end it reads again, behind the awaited call
            /\ staleB' = IF EndsFrame(chunk) \/ active THEN staleB - 1 ELSE staleB
            /\ staleA' = IF ~EndsFrame(chunk) /\ active THEN staleA + 1 ELSE staleA
            /\ wire' = Answered(chunk)
            /\ UNCHANGED <<res, active, acc, nPartial, buf>>
         \/ /\ staleB = 0
            /\ active
            /\ buf = <<>>
            /\ EndsFrame(chunk) \/ nPartial < MaxPartial
            /\ Receive(chunk)
            /\ staleB' = staleA
            /\ staleA' = 0
            /\ wire' = [Answered(chunk) EXCEPT
                          !.awaited = EndsFrame(chunk),
                          !.got = IF EndsFrame(chunk)
                                  THEN ResponseOpcode(acc \o chunk) ELSE @]
            /\ UNCHANGED buf
         \/ /\ staleB = 0
            /\ ~active
            /\ Len(buf) < MaxBuffered
            /\ buf' = Append(buf, chunk)
            /\ wire' = Answered(chunk)
            /\ UNCHANGED <<res, active, acc, nPartial, staleB, staleA>>
    /\ UNCHANGED <<pc, stack, loc, outcome, dev>>

\* a chunk the stream held is handed to the read that was just issued; when
\* it does not end a frame readChunk reads again, and on an ended stream that
\* read settles with done ('Reader closed', 1419-1422)
StreamDeliver ==
    /\ active
    /\ staleB = 0
    /\ buf # <<>>
    /\ IF dev = "closed" /\ ~EndsFrame(Head(buf)) /\ Tail(buf) = <<>>
       THEN /\ res' = "closed"
            /\ active' = FALSE
            /\ acc' = <<>>
            /\ nPartial' = 0
       ELSE Receive(Head(buf))
    /\ buf' = Tail(buf)
    /\ staleB' = staleA
    /\ staleA' = 0
    /\ wire' = [wire EXCEPT
                  !.awaited = EndsFrame(Head(buf)) \/ dev = "closed",
                  !.got = IF EndsFrame(Head(buf))
                          THEN ResponseOpcode(acc \o Head(buf)) ELSE @]
    /\ UNCHANGED <<pc, stack, loc, outcome, dev>>

\* the setTimeout of readResponse fires (script.js:1408): the promise is
\* rejected, the reader.read() of the call stays outstanding
Timeout ==
    /\ active
    /\ buf = <<>>
    /\ res' = "timeout"
    /\ active' = FALSE
    /\ acc' = <<>>
    /\ nPartial' = 0
    /\ staleB' = staleB + staleA + 1
    /\ staleA' = 0
    /\ wire' = [Unclean(wire) EXCEPT !.awaited = TRUE]
    /\ UNCHANGED <<pc, stack, loc, outcome, dev, buf>>

\* the stream ends: a chunk it holds is still handed to the next read, every
\* other outstanding read settles with done (script.js:1419)
DeviceClose ==
    /\ Running
    /\ dev # "closed"
    /\ dev' = "closed"
    /\ staleB' = 0
    /\ staleA' = 0
    /\ IF buf = <<>>
       THEN /\ acc' = <<>>
            /\ nPartial' = 0
            /\ active' = FALSE
            /\ res' = IF active THEN "closed" ELSE res
            /\ wire' = [Unclean(wire) EXCEPT !.awaited = @ \/ active]
       ELSE /\ wire' = Unclean(wire)
            /\ UNCHANGED <<acc, nPartial, active, res>>
    /\ UNCHANGED <<pc, stack, loc, outcome, buf>>

(***************************************************************************)
(* The client: handleFlash and the functions it calls.                     *)
(***************************************************************************)
\* mutation: the provider's list walked from its end
File_Reversed(i) == firmwareData[Regions - i]

File(i) == firmwareData[i + 1]

\* a reset routine was called: loc.waveform names the last one; what it does
\* to the control lines, call by call, is followed in ResetSpec
AfterReset(l, name) == [l EXCEPT !.waveform = name]

Call(target, ret, l) ==
    /\ pc' = target
    /\ stack' = <<ret>> \o stack
    /\ loc' = l

Return(l) ==
    /\ pc' = Head(stack)
    /\ stack' = Tail(stack)
    /\ loc' = l

\* the error reaches the catch block of handleFlash (script.js:325-335): the
\* progress is hidden and the flash button is shown
Fail(l) ==
    /\ pc' = "hf_catch"
    /\ stack' = <<>>
    /\ loc' = l
    /\ UNCHANGED outcome

Quiet == UNCHANGED <<res, envVars, wire>>

\* handleFlash up to the bootloader-entry loop (script.js:170-216), for a
\* port that is not open: from the page as loaded, or from the flash button
\* the catch block has shown again.  connectedPort.open() (194) resolves, the
\* reader and the writer are taken and performInitialReset runs; or it
\* rejects, and the catch block starts with the port closed, no lock taken
\* and no frame written.  A session that starts while a catch block or a
\* cleanup is still running is not followed.
HandleFlashStart ==
    /\ \/ pc = "idle"
       \/ pc = "done" /\ outcome = "failed"
    /\ ~loc.portOpen
    /\ loc.recovering = 0
    /\ loc.cleanup = "none"
    /\ \E opens \in BOOLEAN :
         IF opens
         THEN /\ pc' = "hf_reset"
              /\ stack' = <<>>
              /\ loc' = [AfterReset(loc, "initial") EXCEPT
                           !.resetAttempt = 1,
                           !.portOpen = TRUE, !.readerLocked = TRUE,
                           !.writerLocked = TRUE]
         ELSE /\ pc' = "hf_catch"
              /\ stack' = <<>>
              /\ loc' = loc
    /\ outcome' = "none"
    /\ Quiet

\* the catch block of handleFlash goes on (341-343): attemptDeviceRecovery
\* runs performHardwareReset, then the alert reports the failure
FailureReported ==
    /\ pc = "hf_catch"
    /\ pc' = "done"
    /\ outcome' = "failed"
    /\ loc' = AfterReset(loc, "hardware")
    /\ UNCHANGED stack
    /\ Quiet

\* the flash button is clicked again, which it can be from the moment the
\* catch block has shown it (335): the guard passes (171),
\* connectedPort.open() rejects (194), because the port is still open or as
\* it did before, and the catch block of this invocation starts (325-335);
\* loc.recovering counts the later invocations whose catch block is running
HandleFlashAgain ==
    /\ pc \in {"hf_catch", "done"}
    /\ pc = "done" => outcome = "failed"
    /\ loc.recovering + 1 < MaxInvocations
    /\ loc' = [loc EXCEPT !.recovering = @ + 1]
    /\ UNCHANGED <<pc, stack, outcome>>
    /\ Quiet

\* the catch block of a later invocation goes on (341-343)
LaterFailureReported ==
    /\ pc \in {"idle", "hf_catch", "done"}
    /\ loc.recovering > 0
    /\ outcome' = "failed"
    /\ loc' = [AfterReset(loc, "hardware") EXCEPT !.recovering = @ - 1]
    /\ UNCHANGED <<pc, stack>>
    /\ Quiet

\* a port that is not open is in connectedPort, its streams are new: the
\* state the next handleFlash starts from
Reconnected(l) ==
    /\ pc' = "idle"
    /\ stack' = <<>>
    /\ loc' = [InitLoc EXCEPT !.waveform = l.waveform, !.recovering = l.recovering,
                              !.firmware = l.firmware]
    /\ res' = "none"
    /\ outcome' = "none"
    /\ dev' = "alive"
    /\ staleB' = 0
    /\ staleA' = 0
    /\ active' = FALSE
    /\ acc' = <<>>
    /\ nPartial' = 0
    /\ buf' = <<>>
    /\ wire' = InitWire

\* the connect button between two sessions (script.js:125-168): requestPort
\* gives a port that is not open (another device, or this one plugged in
\* again) and connectedPort is replaced
handleConnect ==
    /\ pc = "done"
    /\ loc.recovering = 0
    /\ loc.cleanup = "none"
    /\ Reconnected(loc)

\* a step of a cleanup function between two sessions
CleanupStep(l) ==
    /\ loc' = l
    /\ UNCHANGED <<pc, stack, outcome>>
    /\ Quiet

\* `this.reader.releaseLock(); this.writer.releaseLock()` (2301-2308,
\* 2328-2335)
ReleaseLocks(l) ==
    [l EXCEPT !.readerLocked = FALSE, !.writerLocked = FALSE, !.cleanup = "released"]

\* forceDeviceReboot up to its call of cleanupAfterReboot (2253-2291): on a
\* port without setSignals it returns at once (2263), the port left open and
\* the locks held; otherwise the two setSignals calls and their delays
forceDeviceReboot ==
    /\ pc = "done"
    /\ loc.cleanup = "none"
    /\ loc.readerLocked
    /\ \E supported \in BOOLEAN :
         CleanupStep(IF supported
                     THEN [AfterReset(loc, "reboot") EXCEPT !.cleanup = "reboot"]
                     ELSE loc)

\* cleanupAfterReboot, called by forceDeviceReboot (2293), up to its delay:
\* the locks are released (2296-2311)
cleanupAfterReboot ==
    /\ pc = "done"
    /\ loc.cleanup = "reboot"
    /\ CleanupStep(ReleaseLocks(loc))

\* esp32HardReset up to its close(): the locks are released (2323-2335)
esp32HardReset ==
    /\ pc = "done"
    /\ loc.cleanup = "none"
    /\ loc.readerLocked
    /\ CleanupStep(ReleaseLocks(loc))

\* the end of cleanupAfterReboot and of esp32HardReset (2313-2315,
\* 2338-2340): the port is closed when it has a readable stream, which it has
\* not once the stream has ended
PortClosed ==
    /\ pc = "done"
    /\ loc.cleanup = "released"
    /\ IF dev = "alive"
       THEN Reconnected(loc)
       ELSE CleanupStep([loc EXCEPT !.cleanup = "none"])

\* what the user starts: the clicks on the flash and connect buttons, and
\* the calls of the two cleanup functions no code of the page calls
UserStep ==
    \/ HandleFlashStart \/ HandleFlashAgain \/ handleConnect
    \/ esp32HardReset \/ forceDeviceReboot

ResetStrategy(resetAttempt) ==
    IF resetAttempt = 1 THEN "hardware"
    ELSE IF resetAttempt = 2 THEN "extended" ELSE "aggressive"

\* one bootloader entry attempt: reset strategy, then esp32Sync (218-240)
BootloaderEntryAttempt ==
    /\ pc = "hf_reset"
    /\ Call("sy_write", "hf_sync_ret",
            [AfterReset(loc, ResetStrategy(loc.resetAttempt))
               EXCEPT !.connectionCycle = 0, !.syncAttempt = 0])
    /\ UNCHANGED outcome
    /\ Quiet

\* esp32Sync: writer.write(syncCommand), readResponse(100) (1307-1310)
SyncWrite ==
    /\ pc = "sy_write"
    /\ pc' = "sy_wait"
    /\ WriteRead(SyncCmd)
    \* Sync frames written by the bootloader-entry loop of handleFlash
    /\ loc' = [loc EXCEPT !.hfSyncs = IF Head(stack) = "hf_sync_ret" THEN @ + 1 ELSE @,
                          \* Sync frames written by this call of esp32Sync
                          !.syncWrites = @ + 1]
    /\ UNCHANGED <<stack, outcome>>

\* esp32Sync returns or throws: the observation of what the call heard ends
SyncReturn(thrown) ==
    /\ Return([loc EXCEPT !.connectionCycle = 0, !.syncAttempt = 0, !.thrown = thrown,
                          !.syncWrites = 0, !.syncResets = 0])
    /\ wire' = [wire EXCEPT !.syncHeard = "other"]
    /\ UNCHANGED <<res, envVars>>

\* `if (response) return true` (1311-1315)
SyncResponded ==
    /\ pc = "sy_wait"
    /\ ~Awaiting
    /\ Resolved(res)
    /\ SyncReturn("none")
    /\ UNCHANGED outcome

\* the catch of a sync attempt and the inner loop's next round (1316-1321)
SyncRetry ==
    /\ pc = "sy_wait"
    /\ ~Awaiting
    /\ ~Resolved(res)
    /\ loc.syncAttempt + 1 < SyncAttempts
    /\ pc' = "sy_write"
    /\ loc' = [loc EXCEPT !.syncAttempt = @ + 1]
    /\ UNCHANGED <<stack, outcome>>
    /\ Quiet

\* a connection cycle is used up: performHardwareReset, next cycle (1323-1335)
SyncNextCycle ==
    /\ pc = "sy_wait"
    /\ ~Awaiting
    /\ ~Resolved(res)
    /\ loc.syncAttempt + 1 = SyncAttempts
    /\ loc.connectionCycle + 1 < SyncCycles
    /\ pc' = "sy_write"
    /\ loc' = [AfterReset(loc, "hardware") EXCEPT !.syncAttempt = 0, !.connectionCycle = @ + 1,
                                                  \* resets run by this call of esp32Sync
                                                  !.syncResets = @ + 1]
    /\ UNCHANGED <<stack, outcome>>
    /\ Quiet

\* `throw new Error('ESP32 SYNC failed after 35 attempts')` (1338)
SyncFailed ==
    /\ pc = "sy_wait"
    /\ ~Awaiting
    /\ ~Resolved(res)
    /\ loc.syncAttempt + 1 = SyncAttempts
    /\ loc.connectionCycle + 1 = SyncCycles
    /\ SyncReturn("other")
    /\ UNCHANGED outcome

\* esp32QuickSync: one Sync, readResponse(200); true or false, never throws
QuickSyncWrite ==
    /\ pc = "qs_write"
    /\ pc' = "qs_wait"
    /\ WriteRead(SyncCmd)
    /\ UNCHANGED <<stack, loc, outcome>>

QuickSyncDone ==
    /\ pc = "qs_wait"
    /\ ~Awaiting
    /\ Return([loc EXCEPT !.thrown = "none"])
    /\ UNCHANGED outcome
    /\ Quiet

\* sync succeeded: loadFirmwareFiles is called and awaits its fetch calls
\* (242-267, 380)
BootloaderEntered ==
    /\ pc = "hf_sync_ret"
    /\ loc.thrown = "none"
    /\ pc' = "hf_load"
    /\ loc' = [loc EXCEPT !.resetAttempt = 0, !.hfSyncs = 0]
    /\ UNCHANGED <<stack, outcome>>
    /\ Quiet

\* every fetch of loadFirmwareFiles settled with a file (380-403):
\* esp32FlashFirmware starts (280, 2068)
FirmwareLoaded ==
    /\ pc = "hf_load"
    /\ pc' = "ff_begin"
    /\ loc' = [loc EXCEPT !.fileIndex = 0, !.retryCount = 0, !.provider = "ok"]
    /\ UNCHANGED <<stack, outcome>>
    /\ Quiet

\* a fetch of loadFirmwareFiles settled without a file, and
\* loadFirmwareFiles throws (382, 406): the catch of handleFlash
FirmwareLoadFailed ==
    /\ pc = "hf_load"
    /\ Fail([loc EXCEPT !.provider = "missing"])
    /\ Quiet

\* the server of the firmware files: fetch (380) has no timer of the
\* client's, it settles when the server answers or the connection fails
FetchSettled == FirmwareLoaded \/ FirmwareLoadFailed

\* the catch of the bootloader-entry loop, another strategy left (247-252)
BootloaderRetry ==
    /\ pc = "hf_sync_ret"
    /\ loc.thrown # "none"
    /\ loc.resetAttempt < maxResetAttempts
    /\ pc' = "hf_reset"
    /\ loc' = [loc EXCEPT !.resetAttempt = @ + 1, !.thrown = "none"]
    /\ UNCHANGED <<stack, outcome>>
    /\ Quiet

\* mutation: the session gives up after the first failed esp32Sync
BootloaderFailed_FirstAttempt ==
    /\ pc = "hf_sync_ret"
    /\ loc.thrown # "none"
    /\ loc.resetAttempt >= 1
    /\ pc' = "done"
    /\ stack' = <<>>
    /\ outcome' = "failed"
    /\ loc' = [loc EXCEPT !.waveform = "hardware"]
    /\ UNCHANGED <<res, envVars, wire>>

\* 'Failed to enter bootloader after 3 attempts' (254)
BootloaderFailed ==
    /\ pc = "hf_sync_ret"
    /\ loc.thrown # "none"
    /\ loc.resetAttempt = maxResetAttempts
    /\ Fail(loc)
    /\ Quiet

\* esp32FlashFirmware: esp32FlashBegin(file.data.length, file.address) (2088)
FlashBeginCall ==
    /\ pc = "ff_begin"
    /\ Call("fb_write", "ff_begin_ret",
            [loc EXCEPT !.bSize = File(loc.fileIndex).size,
                        !.bOffset = File(loc.fileIndex).address,
                        !.region = loc.fileIndex + 1])
    /\ UNCHANGED outcome
    /\ Quiet

\* esp32FlashBegin: write the command, readResponse (1482-1487)
FlashBeginWrite ==
    /\ pc = "fb_write"
    /\ pc' = "fb_wait"
    /\ WriteRead(BeginCmd(loc.bSize, loc.bOffset, loc.region))
    /\ UNCHANGED <<stack, loc, outcome>>

\* the response arrived; after a large erase one esp32QuickSync, whose
\* result is not used (it returns false instead of throwing), then return
FlashBeginOk ==
    /\ pc = "fb_wait"
    /\ ~Awaiting
    /\ Resolved(res)
    /\ IF CeilDiv(loc.bSize, EraseBlock) >= LargeEraseBlocks
       THEN /\ pc' = "qs_write"
            /\ loc' = loc
            /\ stack' = stack
       ELSE Return([loc EXCEPT !.thrown = "none"])
    /\ UNCHANGED outcome
    /\ Quiet

\* readResponse rejected: the error leaves esp32FlashBegin
FlashBeginThrow ==
    /\ pc = "fb_wait"
    /\ ~Awaiting
    /\ ~Resolved(res)
    /\ Return([loc EXCEPT !.thrown = IF res = "sb" THEN "sb" ELSE "other"])
    /\ UNCHANGED outcome
    /\ Quiet

\* FLASH_BEGIN done: chunk size, sequence = 0, first offset (2132-2143)
BeginSucceeded ==
    /\ pc = "ff_begin_ret"
    /\ loc.thrown = "none"
    /\ pc' = "ff_data"
    /\ loc' = [loc EXCEPT
                 !.size = File(loc.fileIndex).size,
                 !.chunkSize = getAdaptiveChunkSize(File(loc.fileIndex).size,
                                  useOtaUpdate /\ File(loc.fileIndex).isApplication),
                 !.sequence = 0, !.offset = 0, !.retryCount = 0]
    /\ UNCHANGED <<stack, outcome>>
    /\ Quiet

\* mutation: a secure-boot rejection of FLASH_BEGIN handled like any other
\* error, the command is sent again
BeginSecureBoot_Retried ==
    /\ pc = "ff_begin_ret"
    /\ loc.thrown = "sb"
    /\ pc' = "ff_begin"
    /\ loc' = [loc EXCEPT !.retryCount = 0, !.thrown = "none"]
    /\ UNCHANGED <<stack, outcome, res, envVars, wire>>

\* error.message.includes('SECURE_BOOT_BLOCKED'): no retry (2097-2106)
BeginSecureBoot ==
    /\ pc = "ff_begin_ret"
    /\ loc.thrown = "sb"
    /\ Fail(loc)
    /\ Quiet

\* first failed attempt: handleSecureBootFlashRetry(0) runs esp32Sync
\* (969-979), as the standard recovery does when secureBootEnabled is false
\* (2112-2125)
BeginRetrySync ==
    /\ pc = "ff_begin_ret"
    /\ loc.thrown = "other"
    /\ loc.retryCount + 1 < maxRetries
    /\ ~secureBootEnabled \/ loc.retryCount + 1 - 1 = 0
    /\ Call("sy_write", "ff_retry_ret",
            [loc EXCEPT !.retryCount = @ + 1, !.thrown = "none",
                        !.connectionCycle = 0, !.syncAttempt = 0])
    /\ UNCHANGED outcome
    /\ Quiet

\* second failed attempt: handleSecureBootFlashRetry(1) clears
\* secureBootEnabled and waits (981-995)
BeginRetryDelay ==
    /\ pc = "ff_begin_ret"
    /\ loc.thrown = "other"
    /\ loc.retryCount + 1 < maxRetries
    /\ secureBootEnabled
    /\ loc.retryCount + 1 - 1 = 1
    /\ pc' = "ff_retry_delay"
    /\ loc' = [loc EXCEPT !.retryCount = @ + 1, !.thrown = "none",
                          !.originalSecureBoot = secureBootEnabled,
                          !.secureBootEnabled = FALSE]
    /\ UNCHANGED <<stack, outcome>>
    /\ Quiet

\* the delay is over: secureBootEnabled is restored (998), next FLASH_BEGIN
\* attempt
BeginRetryRestore ==
    /\ pc = "ff_retry_delay"
    /\ pc' = "ff_begin"
    /\ loc' = [loc EXCEPT !.secureBootEnabled = loc.originalSecureBoot]
    /\ UNCHANGED <<stack, outcome>>
    /\ Quiet

\* 'Failed to flash file ... after 3 attempts' (2127)
BeginFailed ==
    /\ pc = "ff_begin_ret"
    /\ loc.thrown = "other"
    /\ loc.retryCount + 1 >= maxRetries
    /\ Fail(loc)
    /\ Quiet

\* the recovery sync's result is swallowed (976-978); next FLASH_BEGIN attempt
BeginRetryResume ==
    /\ pc = "ff_retry_ret"
    /\ pc' = "ff_begin"
    /\ loc' = [loc EXCEPT !.thrown = "none"]
    /\ UNCHANGED <<stack, outcome>>
    /\ Quiet

\* the chunk loop of esp32FlashFirmware: esp32FlashData(chunk, sequence, ...)
\* (2143-2151); esp32FlashData builds its command once (1519-1533)
FlashDataCall ==
    /\ pc = "ff_data"
    /\ loc.offset < loc.size
    /\ Call("fd_write", "ff_data_ret",
            [loc EXCEPT !.attempt = 0,
                        !.command = DataCmd(Min(loc.chunkSize, loc.size - loc.offset),
                                            loc.sequence, loc.fileIndex + 1)])
    /\ UNCHANGED outcome
    /\ Quiet

\* esp32FlashData: writer.write(command), readResponse(timeout); attempts
\* 0..2 are the loop (1541-1542), attempt 3 the write after recovery (1563)
FlashDataWrite ==
    /\ pc = "fd_write"
    /\ pc' = "fd_wait"
    /\ WriteRead(loc.command)
    /\ UNCHANGED <<stack, loc, outcome>>

\* transmissions of the chunk so far that all ended by timeout with the
\* device sending nothing
FlashDataOk ==
    /\ pc = "fd_wait"
    /\ ~Awaiting
    /\ Resolved(res)
    /\ Return([loc EXCEPT !.thrown = "none", !.attempt = 0, !.command = NoCmd])
    /\ UNCHANGED outcome
    /\ Quiet

\* mutation: the retry builds its command with the next sequence number
FlashDataRetryDelay_NextSequence ==
    /\ pc = "fd_wait"
    /\ ~Awaiting
    /\ ~Resolved(res)
    /\ loc.attempt = 0
    /\ pc' = "fd_write"
    /\ loc' = [loc EXCEPT !.attempt = @ + 1, !.command.seq = @ + 1]
    /\ UNCHANGED <<stack, outcome, res, envVars, wire>>

\* any rejection on attempt 0: handleFlashDataRetry(0) waits, then retry
FlashDataRetryDelay ==
    /\ pc = "fd_wait"
    /\ ~Awaiting
    /\ ~Resolved(res)
    /\ loc.attempt < WRITE_BLOCK_ATTEMPTS - 1
    /\ loc.attempt = 0
    /\ pc' = "fd_write"
    /\ loc' = [loc EXCEPT !.attempt = @ + 1]
    /\ UNCHANGED <<stack, outcome>>
    /\ Quiet

\* any rejection on attempt 1: handleFlashDataRetry(1) runs esp32QuickSync
FlashDataRetrySync ==
    /\ pc = "fd_wait"
    /\ ~Awaiting
    /\ ~Resolved(res)
    /\ loc.attempt < WRITE_BLOCK_ATTEMPTS - 1
    /\ loc.attempt = 1
    /\ Call("qs_write", "fd_retry_ret", loc)
    /\ UNCHANGED outcome
    /\ Quiet

FlashDataRetryResume ==
    /\ pc = "fd_retry_ret"
    /\ pc' = "fd_write"
    /\ loc' = [loc EXCEPT !.attempt = @ + 1]
    /\ UNCHANGED <<stack, outcome>>
    /\ Quiet

\* the last loop attempt failed: quickBootloaderRecovery runs esp32Sync (1560)
FlashDataRecover ==
    /\ pc = "fd_wait"
    /\ ~Awaiting
    /\ ~Resolved(res)
    /\ loc.attempt = WRITE_BLOCK_ATTEMPTS - 1
    /\ Call("sy_write", "fd_recover_ret",
            [loc EXCEPT !.connectionCycle = 0, !.syncAttempt = 0])
    /\ UNCHANGED outcome
    /\ Quiet

\* mutation: after recovery the retry loop starts over
FlashDataRecovered_RestartsLoop ==
    /\ pc = "fd_recover_ret"
    /\ pc' = "fd_write"
    /\ loc' = [loc EXCEPT !.attempt = 0, !.thrown = "none"]
    /\ UNCHANGED <<stack, outcome>>
    /\ Quiet

\* quickBootloaderRecovery swallows the sync error (805); write again (1563)
FlashDataRecovered ==
    /\ pc = "fd_recover_ret"
    /\ pc' = "fd_write"
    /\ loc' = [loc EXCEPT !.attempt = @ + 1, !.thrown = "none"]
    /\ UNCHANGED <<stack, outcome>>
    /\ Quiet

\* the write after recovery failed too: 'FLASH_DATA failed after 3 attempts
\* + recovery' (1569)
FlashDataFailed ==
    /\ pc = "fd_wait"
    /\ ~Awaiting
    /\ ~Resolved(res)
    /\ loc.attempt = WRITE_BLOCK_ATTEMPTS
    /\ Return([loc EXCEPT !.thrown = "other", !.attempt = 0, !.command = NoCmd])
    /\ UNCHANGED outcome
    /\ Quiet

\* `sequence++`, next offset (2152, 2143)
ChunkDone ==
    /\ pc = "ff_data_ret"
    /\ loc.thrown = "none"
    /\ pc' = "ff_data"
    /\ loc' = [loc EXCEPT !.sequence = @ + 1, !.offset = @ + loc.chunkSize]
    /\ UNCHANGED <<stack, outcome>>
    /\ Quiet

\* mutation: a failed chunk sends the file back to its FLASH_BEGIN
FlashFirmwareThrow_BeginsAgain ==
    /\ pc \in {"ff_data_ret", "ff_end_ret", "ota_begin_ret", "ota_data_ret", "ota_end_ret"}
    /\ loc.thrown # "none"
    /\ IF pc = "ff_data_ret"
       THEN /\ pc' = "ff_begin"
            /\ loc' = [loc EXCEPT !.thrown = "none", !.retryCount = 0]
            /\ UNCHANGED <<stack, outcome>>
       ELSE Fail(loc)
    /\ Quiet

\* an error of esp32FlashData, esp32FlashEnd or of updateOtaDataPartition
\* leaves esp32FlashFirmware and reaches the catch of handleFlash
FlashFirmwareThrow ==
    /\ pc \in {"ff_data_ret", "ff_end_ret", "ota_begin_ret", "ota_data_ret", "ota_end_ret"}
    /\ loc.thrown # "none"
    /\ Fail(loc)
    /\ Quiet

\* after the last chunk: esp32FlashEnd(false) (2170)
RegionEndCall ==
    /\ pc = "ff_data"
    /\ loc.offset >= loc.size
    /\ Call("fe_write", "ff_end_ret", [loc EXCEPT !.attempt = 0, !.reboot = FALSE])
    /\ UNCHANGED outcome
    /\ Quiet

\* esp32FlashEnd: writer.write(command), readResponse(timeout) (1597-1598)
FlashEndWrite ==
    /\ pc = "fe_write"
    /\ pc' = "fe_wait"
    /\ WriteRead(EndCmd(loc.reboot))
    /\ UNCHANGED <<stack, loc, outcome>>

FlashEndOk ==
    /\ pc = "fe_wait"
    /\ ~Awaiting
    /\ Resolved(res)
    /\ Return([loc EXCEPT !.thrown = "none", !.attempt = 0])
    /\ UNCHANGED outcome
    /\ Quiet

\* any rejection, attempts left: delay(100), write again (1604-1606)
FlashEndRetry ==
    /\ pc = "fe_wait"
    /\ ~Awaiting
    /\ ~Resolved(res)
    /\ loc.attempt < FLASH_END_ATTEMPTS - 1
    /\ pc' = "fe_write"
    /\ loc' = [loc EXCEPT !.attempt = @ + 1]
    /\ UNCHANGED <<stack, outcome>>
    /\ Quiet

\* 'FLASH_END failed after 3 attempts' (1608)
FlashEndFailed ==
    /\ pc = "fe_wait"
    /\ ~Awaiting
    /\ ~Resolved(res)
    /\ loc.attempt >= FLASH_END_ATTEMPTS - 1
    /\ Return([loc EXCEPT !.thrown = "other", !.attempt = 0])
    /\ UNCHANGED outcome
    /\ Quiet

\* a file is flashed, another follows: esp32QuickSync (2183-2188)
RegionEndedNext ==
    /\ pc = "ff_end_ret"
    /\ loc.thrown = "none"
    /\ loc.fileIndex # Regions - 1
    /\ Call("qs_write", "ff_next", loc)
    /\ wire' = [wire EXCEPT !.ended = @ + 1]
    /\ UNCHANGED <<outcome, res, envVars>>

\* `fileIndex++` of the file loop (2068)
NextFile ==
    /\ pc = "ff_next"
    /\ pc' = "ff_begin"
    /\ loc' = [loc EXCEPT !.fileIndex = @ + 1, !.retryCount = 0,
                          !.sequence = 0, !.offset = 0]
    /\ UNCHANGED <<stack, outcome>>
    /\ Quiet

\* the last file is flashed: updateOtaDataPartition calls
\* esp32FlashBegin(otaData.length, otaDataPartition) (2194-2196, 1067)
RegionEndedLast ==
    /\ pc = "ff_end_ret"
    /\ loc.thrown = "none"
    /\ loc.fileIndex = Regions - 1
    /\ Call("fb_write", "ota_begin_ret",
            [loc EXCEPT !.bSize = otaDataSize, !.bOffset = otaDataPartition,
                        !.region = OtaRegion])
    /\ wire' = [wire EXCEPT !.ended = @ + 1]
    /\ UNCHANGED <<outcome, res, envVars>>

\* updateOtaDataPartition: chunkSize = 1024, sequence = 0 (1071-1074)
OtaBegun ==
    /\ pc = "ota_begin_ret"
    /\ loc.thrown = "none"
    /\ pc' = "ota_data"
    /\ loc' = [loc EXCEPT !.size = otaDataSize, !.chunkSize = otaChunkSize,
                          !.sequence = 0, !.offset = 0]
    /\ UNCHANGED <<stack, outcome>>
    /\ Quiet

\* esp32FlashData(chunk, sequence, otaData.length) (1075-1076)
OtaDataCall ==
    /\ pc = "ota_data"
    /\ loc.offset < loc.size
    /\ Call("fd_write", "ota_data_ret",
            [loc EXCEPT !.attempt = 0,
                        !.command = DataCmd(Min(loc.chunkSize, loc.size - loc.offset),
                                            loc.sequence, OtaRegion)])
    /\ UNCHANGED outcome
    /\ Quiet

OtaChunkDone ==
    /\ pc = "ota_data_ret"
    /\ loc.thrown = "none"
    /\ pc' = "ota_data"
    /\ loc' = [loc EXCEPT !.sequence = @ + 1, !.offset = @ + loc.chunkSize]
    /\ UNCHANGED <<stack, outcome>>
    /\ Quiet

\* esp32FlashEnd(false) of the OTA data partition (1081)
OtaEndCall ==
    /\ pc = "ota_data"
    /\ loc.offset >= loc.size
    /\ Call("fe_write", "ota_end_ret", [loc EXCEPT !.attempt = 0, !.reboot = FALSE])
    /\ UNCHANGED outcome
    /\ Quiet

\* esp32FlashFirmware returned; performFinalVerification: esp32Sync (2207)
OtaEnded ==
    /\ pc = "ota_end_ret"
    /\ loc.thrown = "none"
    /\ Call("sy_write", "fv_sync_ret",
            [loc EXCEPT !.connectionCycle = 0, !.syncAttempt = 0,
                        !.sequence = 0, !.offset = 0, !.size = 0, !.chunkSize = 0,
                        !.fileIndex = 0, !.region = 0, !.bSize = 0, !.bOffset = 0])
    /\ wire' = [wire EXCEPT !.ended = @ + 1]
    /\ UNCHANGED <<outcome, res, envVars>>

\* verifyBootloaderFlashState starts its register reads (2212, 824)
VerifySynced ==
    /\ pc = "fv_sync_ret"
    /\ loc.thrown = "none"
    /\ pc' = "rr_write"
    /\ loc' = [loc EXCEPT !.step = 0, !.memOk = TRUE]
    /\ UNCHANGED <<stack, outcome>>
    /\ Quiet

\* 'Final verification failed' (2246-2249)
VerifyFailed ==
    /\ pc = "fv_sync_ret"
    /\ loc.thrown # "none"
    /\ Fail(loc)
    /\ Quiet

\* esp32ReadReg: writer.write(command), readResponse(1000) (1353-1354)
ReadRegWrite ==
    /\ pc = "rr_write"
    /\ pc' = "rr_wait"
    /\ WriteRead(ReadRegCmd)
    /\ UNCHANGED <<stack, loc, outcome>>

\* esp32ReadReg returns 4 bytes or null; verifyBootloaderFlashState: reads
\* 0 and 1 are the memory test (both are made, then checked), read 2 is the
\* flash-controller test (result unused), reads 3..5 the responsiveness loop;
\* after it `responseTime > 5000` returns false (856-860): slow is whether the
\* three reads and their delays took more than 5000 milliseconds
ReadRegDone ==
    /\ pc = "rr_wait"
    /\ ~Awaiting
    /\ LET value == (res = "ok4")
           memOk == loc.memOk /\ value
           bad == IF loc.step < MemTestReads - 1 THEN FALSE
                  ELSE IF loc.step = MemTestReads - 1 THEN ~memOk
                  ELSE IF loc.step = MemTestReads THEN FALSE
                  ELSE ~value
           last == loc.step = MemTestReads + ResponsivenessReads
       IN  IF bad
           THEN Fail(loc)
           ELSE IF last
           THEN \E slow \in BOOLEAN :
                  IF slow
                  THEN Fail([loc EXCEPT !.slow = TRUE])
                  ELSE /\ pc' = "fv_reboot"
                       /\ loc' = [loc EXCEPT !.step = 0, !.memOk = TRUE]
                       /\ UNCHANGED <<stack, outcome>>
           ELSE /\ pc' = "rr_write"
                /\ loc' = [loc EXCEPT !.step = @ + 1, !.memOk = memOk]
                /\ UNCHANGED <<stack, outcome>>
    /\ Quiet

\* performFinalVerification writes FLASH_END with flag 0 and does not wait
\* for the response (2233-2241)
VerifyRebootWrite ==
    /\ pc = "fv_reboot"
    /\ pc' = "hf_reboot"
    /\ wire' = Written(EndCmd(TRUE))
    /\ UNCHANGED <<stack, loc, outcome, res, envVars>>

\* handleFlash: esp32FlashEnd(true) (290)
FinalRebootCall ==
    /\ pc = "hf_reboot"
    /\ Call("fe_write", "hf_reboot_ret", [loc EXCEPT !.attempt = 0, !.reboot = TRUE])
    /\ UNCHANGED outcome
    /\ Quiet

\* the reboot command returned or threw (the catch at 302-313 does not
\* rethrow): flash-success is shown (315-323)
SessionSucceeded ==
    /\ pc = "hf_reboot_ret"
    /\ pc' = "done"
    /\ stack' = <<>>
    /\ outcome' = "success"
    /\ loc' = [loc EXCEPT !.thrown = "none", !.reboot = FALSE]
    /\ Quiet

ClientStep ==
    \/ BootloaderEntryAttempt
    \/ SyncWrite \/ SyncResponded \/ SyncRetry \/ SyncNextCycle \/ SyncFailed
    \/ QuickSyncWrite \/ QuickSyncDone
    \/ BootloaderEntered \/ BootloaderRetry \/ BootloaderFailed
    \/ FlashBeginCall \/ FlashBeginWrite \/ FlashBeginOk \/ FlashBeginThrow
    \/ BeginSucceeded \/ BeginSecureBoot \/ BeginRetrySync \/ BeginRetryDelay
    \/ BeginRetryRestore \/ BeginFailed \/ BeginRetryResume
    \/ FlashDataCall \/ FlashDataWrite \/ FlashDataOk \/ FlashDataRetryDelay
    \/ FlashDataRetrySync \/ FlashDataRetryResume \/ FlashDataRecover
    \/ FlashDataRecovered \/ FlashDataFailed \/ ChunkDone \/ FlashFirmwareThrow
    \/ RegionEndCall \/ FlashEndWrite \/ FlashEndOk \/ FlashEndRetry \/ FlashEndFailed
    \/ RegionEndedNext \/ NextFile \/ RegionEndedLast
    \/ OtaBegun \/ OtaDataCall \/ OtaChunkDone \/ OtaEndCall \/ OtaEnded
    \/ VerifySynced \/ VerifyFailed \/ ReadRegWrite \/ ReadRegDone
    \/ VerifyRebootWrite \/ FinalRebootCall \/ SessionSucceeded
    \/ FailureReported \/ readResponseCall

\* a cleanup function that was called goes on
CleanupGoesOn == cleanupAfterReboot \/ PortClosed

Next ==
    \/ ClientStep \/ LaterFailureReported \/ CleanupGoesOn
    \/ UserStep \/ FetchSettled
    \/ DeviceSend \/ StreamDeliver \/ Timeout \/ DeviceClose

Spec == Init /\ [][Next]_vars

\* the session is one thread of control: it runs its code, or it is
\* suspended in a write that completes, or in a readResponse call that ends
\* with a chunk the stream holds or with its timer
SessionStep == ClientStep \/ Timeout \/ StreamDeliver

\* timers fire, writes complete and the code of the session runs; nothing is
\* assumed of the user, of the device or of the server of the files
SessionFairSpec == Spec /\ WF_vars(SessionStep)

\* the same, and the catch block of each later invocation and a cleanup that
\* was called go on as well, each by itself
FairSpec ==
    /\ SessionFairSpec
    /\ WF_vars(LaterFailureReported)
    /\ WF_vars(CleanupGoesOn)

(***************************************************************************)
(* The session with a device that never sends anything.  SilentNext lists  *)
(* the steps of Next that such a session takes; SilentIsAll states that    *)
(* these are all of them: no other step of Next is enabled in a state the  *)
(* session reaches unless it is the device sending.                        *)
(***************************************************************************)
SilentNext ==
    \/ HandleFlashStart \/ BootloaderEntryAttempt
    \/ SyncWrite \/ SyncRetry \/ SyncNextCycle \/ SyncFailed
    \/ BootloaderRetry \/ BootloaderFailed
    \/ FailureReported \/ readResponseCall \/ Timeout
    \/ HandleFlashAgain \/ LaterFailureReported \/ handleConnect
    \/ esp32HardReset \/ forceDeviceReboot \/ cleanupAfterReboot \/ PortClosed
    \/ DeviceClose

SilentIsAll == ~ENABLED (Next /\ ~wire'.devSent /\ ~SilentNext)

\* timers fire, writes complete and the code of the session runs, as in
\* SessionFairSpec
SilentSpec == Init /\ [][SilentNext]_vars /\ WF_vars(SessionStep)

(***************************************************************************)
(* The session with a device that answers every command with one success  *)
(* frame and does nothing else, no timer of a readResponse call firing,    *)
(* and with firmware files that load: the two-region provider, and         *)
(* firmwareConfig with an application whose erase is a large one.          *)
(***************************************************************************)
HappyInit == \E firmware \in {"two-region", "large"} : InitOf(firmware)

\* the device sends the success frame of the command written last, which it
\* has not answered yet
DeviceAnswers == DeviceSend /\ wire'.clean

\* the steps of Next that such a session takes: no retry, no recovery and
\* no failure of a command is enabled in it
HappyNext ==
    \/ HandleFlashStart \/ BootloaderEntryAttempt
    \/ SyncWrite \/ SyncResponded \/ QuickSyncWrite \/ QuickSyncDone
    \/ BootloaderEntered \/ FirmwareLoaded
    \/ FlashBeginCall \/ FlashBeginWrite \/ FlashBeginOk \/ BeginSucceeded
    \/ FlashDataCall \/ FlashDataWrite \/ FlashDataOk \/ ChunkDone
    \/ RegionEndCall \/ FlashEndWrite \/ FlashEndOk
    \/ RegionEndedNext \/ NextFile \/ RegionEndedLast
    \/ OtaBegun \/ OtaDataCall \/ OtaChunkDone \/ OtaEndCall \/ OtaEnded
    \/ VerifySynced \/ ReadRegWrite \/ ReadRegDone
    \/ VerifyRebootWrite \/ FinalRebootCall \/ SessionSucceeded
    \/ FailureReported \/ readResponseCall
    \/ DeviceAnswers \/ StreamDeliver

HappySpec == HappyInit /\ [][HappyNext]_vars

TypeOK ==
    /\ outcome \in {"none", "success", "failed"}
    /\ dev \in {"alive", "closed"}
    /\ staleB \in Nat
    /\ staleA \in Nat
    /\ active \in BOOLEAN
    /\ Len(buf) <= MaxBuffered
    /\ (buf # <<>> => staleB = 0)
    /\ (active <=> res = "pending")

(***************************************************************************)
(* The frame codec and the command builders as pure functions, applied to  *)
(* inputs drawn in CodecInit.                                              *)
(***************************************************************************)
\* longest byte sequence drawn from CodecBytes
MaxCodecLen == 3
\* sequence numbers a FLASH_DATA command is built with
MaxCodecSeq == 2
\* file sizes of the planning specification: up to MaxPlanBlocks erase blocks
\* for the application, up to MaxPartKiB KiB for a data file
MaxPlanBlocks == 12
MaxPartKiB == 2

RECURSIVE EscapeNone(_, _)
\* mutation: the byte loop copies every byte, no escape sequences
EscapeNone(data, i) ==
    IF i > Len(data) THEN <<>> ELSE <<data[i]>> \o EscapeNone(data, i + 1)

RECURSIVE Escape(_, _)
\* the byte loop of slipEncode (1137-1145)
Escape(data, i) ==
    IF i > Len(data) THEN <<>>
    ELSE (IF data[i] = SLIP_ESC THEN <<SLIP_ESC, SLIP_ESC_ESC>>
          ELSE IF data[i] = SLIP_END THEN <<SLIP_ESC, SLIP_ESC_END>>
          ELSE <<data[i]>>)
         \o Escape(data, i + 1)

\* mutation: a slipEncode that frames the bytes without escaping them
slipEncode_Unescaped(data) == <<SLIP_END>> \o EscapeNone(data, 1) \o <<SLIP_END>>

slipEncode(data) == <<SLIP_END>> \o Escape(data, 1) \o <<SLIP_END>>

RECURSIVE Xor(_, _)
\* a ^ b on bytes
Xor(a, b) ==
    IF a = 0 THEN b
    ELSE IF b = 0 THEN a
    ELSE 2 * Xor(a \div 2, b \div 2) + ((a + b) % 2)

RECURSIVE ChecksumFrom(_, _, _)
ChecksumFrom(checksum, data, i) ==
    IF i > Len(data) THEN checksum
    ELSE ChecksumFrom(Xor(checksum, data[i]), data, i + 1)

\* calculateChecksum: 0xEF, then ^= every byte
calculateChecksum(data) == ChecksumFrom(239, data, 1)

\* DataView.setUint16 / setUint32 with littleEndian = true
Uint16LE(n) == << n % 256, (n \div 256) % 256 >>
Uint32LE(n) == << n % 256, (n \div 256) % 256, (n \div 65536) % 256,
                  (n \div 16777216) % 256 >>

\* the packet both createCommand functions build: direction 0, opcode, size,
\* checksum, data (1241-1256)
Packet(cmd, data, checksumData) ==
    <<0, cmd>> \o Uint16LE(Len(data)) \o Uint32LE(calculateChecksum(checksumData))
    \o data

createCommand(cmd, data) == slipEncode(Packet(cmd, data, data))

\* mutation: the checksum taken over the whole payload, header included
createCommandWithCustomChecksum_Payload(cmd, data, checksumData) ==
    slipEncode(Packet(cmd, data, data))

\* checksumData is a Uint8Array, truthy also when empty, so
\* `checksumData || data` is checksumData (1250)
createCommandWithCustomChecksum(cmd, data, checksumData) ==
    slipEncode(Packet(cmd, data, checksumData))

\* esp32FlashData: the command for a chunk (1519-1533)
FlashDataFrame(data, sequence) ==
    createCommandWithCustomChecksum(
        CMD_FLASH_DATA,
        Uint32LE(Len(data)) \o Uint32LE(sequence) \o Uint32LE(0) \o Uint32LE(0) \o data,
        data)

\* bytes the inputs are made of: plain bytes, the four SLIP bytes, and 0x2F,
\* whose checksum is 0xC0
CodecBytes == {0, 1, 47, SLIP_END, SLIP_ESC, SLIP_ESC_END, SLIP_ESC_ESC}

ShortInputs == UNION {[1..n -> CodecBytes] : n \in 0..MaxCodecLen}

\* byte sequences shaped like a response: direction, opcode, declared size,
\* value, a body, two status bytes
ResponseInputs ==
    { <<d, CMD_FLASH_DATA>> \o Uint16LE(sz) \o Uint32LE(0) \o body \o <<s1, s2>> :
        d \in {0, 1}, sz \in {0, 1, MaxCodecLen}, body \in {<<>>, <<7>>},
        s1 \in {0, 1, 3, 5, 6, 7, 8, 10}, s2 \in {0, 1, 2, 6} }

CodecLoc(b) ==
    [ data |-> b, frame |-> <<>>, other |-> <<>>,
      decoded |-> [thrown |-> "none", bytes |-> <<>>],
      split |-> [thrown |-> "none", bytes |-> <<>>] ]

CodecInit ==
    /\ pc = "codec"
    /\ \E b \in ShortInputs \cup ResponseInputs : loc = CodecLoc(b)
    /\ stack = <<>>
    /\ res = "none"
    /\ outcome = "none"
    /\ dev = "alive"
    /\ staleB = 0
    /\ staleA = 0
    /\ active = FALSE
    /\ acc = <<>>
    /\ nPartial = 0
    /\ buf = <<>>
    /\ wire = InitWire

codecRest == <<stack, res, outcome, envVars, wire>>

\* frame = slipEncode(data)
CodecEncode ==
    /\ pc = "codec"
    /\ pc' = "encoded"
    /\ loc' = [loc EXCEPT !.frame = slipEncode(loc.data)]
    /\ UNCHANGED codecRest

\* slipDecode(frame) of the frame just encoded
CodecRoundTrip ==
    /\ pc = "encoded"
    /\ pc' = "decoded"
    /\ loc' = [loc EXCEPT !.decoded = slipDecode(loc.frame)]
    /\ UNCHANGED codecRest

\* slipDecode(data): the bytes taken as what a device sent
CodecClassify ==
    /\ pc = "codec"
    /\ pc' = "classified"
    /\ loc' = [loc EXCEPT !.decoded = slipDecode(loc.data)]
    /\ UNCHANGED codecRest

\* the FLASH_DATA command of the chunk `data` with sequence number 0 and with
\* another sequence number
CodecFlashData ==
    /\ pc = "codec"
    /\ pc' = "command"
    /\ \E sequence \in 1..MaxCodecSeq :
         loc' = [loc EXCEPT !.frame = FlashDataFrame(loc.data, 0),
                            !.other = FlashDataFrame(loc.data, sequence)]
    /\ UNCHANGED codecRest

RECURSIVE ReadChunks(_, _, _)
\* readChunk: push the chunk; resolve with slipDecode of the chunks combined
\* when the chunk ends with 0xC0, read again when it does not; when the
\* stream has no more chunks the timer rejects
ReadChunks(stream, i, combined) ==
    IF i > Len(stream) THEN [thrown |-> "timeout", bytes |-> <<>>]
    ELSE LET value == stream[i]
         IN  IF value[Len(value)] = SLIP_END
             THEN slipDecode(combined \o value)
             ELSE ReadChunks(stream, i + 1, combined \o value)

\* readResponse on a stream that delivers the chunks of `stream` in order
readResponse(stream) == ReadChunks(stream, 1, <<>>)

\* the response frame, alone or followed by one more byte, is delivered in
\* one chunk and in two chunks cut at k
CodecReassemble ==
    /\ pc = "encoded"
    /\ pc' = "reassembled"
    /\ \E k \in 1..(Len(loc.frame) - 1), more \in {<<>>, <<47>>} :
         loc' = [loc EXCEPT
                   !.decoded = readResponse(<< loc.frame \o more >>),
                   !.split = readResponse(<< SubSeq(loc.frame, 1, k),
                                             SubSeq(loc.frame, k + 1, Len(loc.frame))
                                                 \o more >>)]
    /\ UNCHANGED codecRest

CodecNext ==
    \/ CodecEncode \/ CodecRoundTrip \/ CodecClassify \/ CodecFlashData
    \/ CodecReassemble

CodecSpec == CodecInit /\ [][CodecNext]_vars

(***************************************************************************)
(* The computations of a session that depend on the file sizes only: the   *)
(* FLASH_BEGIN payload and its timeout, the chunk size, and the flash      *)
(* ranges of the files of firmwareConfig in the order they are written.    *)
(* This specification reuses the variables of the module: pc is the        *)
(* computation done, loc holds its inputs and results.                     *)
(***************************************************************************)
PlanSizes ==
    { b * EraseBlock + d : b \in 0..MaxPlanBlocks, d \in {0, 1} }
        \cup { Mega, (3 * Mega) \div 2, 2 * Mega, 3 * Mega, maxOtaSize }

PartSizes == { k * 1024 : k \in 1..MaxPartKiB }

PlanLoc(size, isApplication, phy, assets, secureBoot) ==
    [ size |-> size, isApplication |-> isApplication,
      secureBootEnabled |-> secureBoot,
      sizes |-> <<size, phy, assets>>,
      files |-> <<>>, fileIndex |-> 0, written |-> <<>>,
      command |-> NoCmd, blocks |-> 0, timeout |-> Ms(0), chunkSize |-> 0,
      verified |-> "none", recovered |-> FALSE, timeouts |-> <<>> ]

PlanInit ==
    /\ pc = "plan"
    /\ \E size \in PlanSizes, isApplication \in BOOLEAN, phy \in PartSizes,
          assets \in PartSizes, secureBoot \in BOOLEAN :
         loc = PlanLoc(size, isApplication, phy, assets, secureBoot)
    /\ stack = <<>>
    /\ res = "none"
    /\ outcome = "none"
    /\ dev = "alive"
    /\ staleB = 0
    /\ staleA = 0
    /\ active = FALSE
    /\ acc = <<>>
    /\ nPartial = 0
    /\ buf = <<>>
    /\ wire = InitWire

\* esp32FlashBegin(size, offset): the payload and the timeout of readResponse
PlanFlashBegin ==
    /\ pc = "plan"
    /\ pc' = "begin"
    /\ loc' = [loc EXCEPT
                 !.command = BeginCmd(loc.size, ota0Partition, 1),
                 !.blocks = CeilDiv(loc.size, EraseBlock),
                 !.timeout = getEsptoolTimeout("FLASH_BEGIN",
                                               CeilDiv(loc.size, EraseBlock), 0)]
    /\ UNCHANGED codecRest

\* the device answers FLASH_BEGIN with success: after a large erase the
\* stabilization delay and esp32QuickSync follow (1491-1500)
PlanBeginAnswered ==
    /\ pc = "begin"
    /\ pc' = IF loc.blocks >= LargeEraseBlocks THEN "verify" ELSE "begun"
    /\ UNCHANGED <<loc, codecRest>>

\* esp32QuickSync returns true when readResponse resolves and false when it
\* rejects (1277-1282), and esp32FlashBegin returns; only an error of
\* writer.write (1276) reaches the catch with esp32Sync (1502-1508), whose
\* own write (1307) then fails as well
PlanQuickSync ==
    /\ pc = "verify"
    /\ \E result \in {"true", "false", "write_error"} :
         /\ pc' = IF result = "write_error" THEN "begin_failed" ELSE "begun"
         /\ loc' = [loc EXCEPT !.verified = result,
                               !.recovered = (result = "write_error")]
    /\ UNCHANGED codecRest

\* esp32FlashFirmware: the first FLASH_DATA of the file (2151)
PlanFirstData ==
    /\ pc = "begun"
    /\ loc.size > 0
    /\ pc' = "data"
    /\ loc' = [loc EXCEPT !.chunkSize = getAdaptiveChunkSize(loc.size,
                                                            useOtaUpdate /\ loc.isApplication)]
    /\ UNCHANGED codecRest

RECURSIVE FlashDataTimeout(_, _)
\* esp32FlashData: the timeout passed to readResponse at an attempt; 0..2
\* are the attempts of the loop, WRITE_BLOCK_ATTEMPTS is the write after
\* quickBootloaderRecovery (1537, 1554, 1564)
FlashDataTimeout(totalFileSize, attempt) ==
    IF attempt = 0 THEN getEsptoolTimeout("FLASH_DATA", 1, totalFileSize)
    ELSE IF attempt < WRITE_BLOCK_ATTEMPTS
    THEN LET longer == Times(FlashDataTimeout(totalFileSize, attempt - 1), 3, 2)
         IN  IF TimeLeq(longer, Ms(MaxDataTimeout)) THEN longer
             ELSE Ms(MaxDataTimeout)
    ELSE Times(FlashDataTimeout(totalFileSize, attempt - 1), 2, 1)

\* esp32FlashData(chunk, sequence, totalFileSize): the timeouts of the four
\* attempts
PlanDataTimeouts ==
    /\ pc = "plan"
    /\ pc' = "timeouts"
    /\ loc' = [loc EXCEPT
                 !.timeouts = [ k \in 1..(WRITE_BLOCK_ATTEMPTS + 1) |->
                                  FlashDataTimeout(loc.size, k - 1) ]]
    /\ UNCHANGED codecRest

\* esp32FlashFirmware: the chunk size of a file (2133-2134)
PlanChunks ==
    /\ pc = "plan"
    /\ pc' = "chunked"
    /\ loc' = [loc EXCEPT
                 !.chunkSize = getAdaptiveChunkSize(loc.size,
                                                    useOtaUpdate /\ loc.isApplication)]
    /\ UNCHANGED codecRest

\* handleFlash: firmwareData = await loadFirmwareFiles()
PlanLoad ==
    /\ pc = "plan"
    /\ pc' = "layout"
    /\ loc' = [loc EXCEPT !.files = loadFirmwareFiles(firmwareParts, loc.sizes)]
    /\ UNCHANGED codecRest

\* esp32FlashFirmware: the FLASH_BEGIN of the next file
PlanRegionBegin ==
    /\ pc = "layout"
    /\ loc.fileIndex < Len(loc.files)
    /\ pc' = "region"
    /\ loc' = [loc EXCEPT
                 !.command = BeginCmd(loc.files[loc.fileIndex + 1].size,
                                      loc.files[loc.fileIndex + 1].address,
                                      loc.fileIndex + 1)]
    /\ UNCHANGED codecRest

\* the file is written and ended: its bytes occupy [address, address + size)
PlanRegionEnd ==
    /\ pc = "region"
    /\ pc' = "layout"
    /\ loc' = [loc EXCEPT
                 !.written = Append(@, [lo |-> loc.command.address,
                                        hi |-> loc.command.address + loc.command.len]),
                 !.fileIndex = @ + 1]
    /\ UNCHANGED codecRest

\* updateOtaDataPartition: esp32FlashBegin(otaData.length, otaDataPartition)
PlanOtaData ==
    /\ pc = "layout"
    /\ loc.fileIndex = Len(loc.files)
    /\ useOtaUpdate
    /\ pc' = "ota_region"
    /\ loc' = [loc EXCEPT
                 !.command = BeginCmd(otaDataSize, otaDataPartition,
                                      Len(loc.files) + 1)]
    /\ UNCHANGED codecRest

PlanNext ==
    \/ PlanFlashBegin \/ PlanBeginAnswered \/ PlanQuickSync \/ PlanFirstData
    \/ PlanDataTimeouts \/ PlanChunks \/ PlanLoad
    \/ PlanRegionBegin \/ PlanRegionEnd \/ PlanOtaData

PlanSpec == PlanInit /\ [][PlanNext]_vars

(***************************************************************************)
(* The control lines.  The reset routines are followed call by call:       *)
(* every port.setSignals is a step, and the port either has no setSignals, *)
(* or has one that may throw at any call, or has one that works; on a     *)
(* port that is not open every setSignals call throws.  This specification *)
(* covers handleFlash up to the bootloader handshake, and its catch block; *)
(* esp32Sync is followed write by write.  It reuses the variables of the   *)
(* module.                                                                  *)
(***************************************************************************)
\* port.setSignals({dataTerminalReady, requestToSend}): DTR drives EN, RTS
\* drives the boot-select line
Sig(dataTerminalReady, requestToSend) ==
    [en |-> dataTerminalReady, boot |-> requestToSend]

performInitialReset == << Sig(FALSE, TRUE), Sig(TRUE, TRUE) >>

performHardwareReset ==
    << Sig(TRUE, TRUE), Sig(TRUE, FALSE), Sig(FALSE, FALSE), Sig(TRUE, FALSE),
       Sig(TRUE, TRUE) >>

performExtendedReset ==
    << Sig(TRUE, TRUE), Sig(TRUE, FALSE), Sig(FALSE, FALSE), Sig(TRUE, FALSE),
       Sig(TRUE, TRUE) >>

performAggressiveReset ==
    [ i \in 1..(2 * AggressiveCycles) |->
        IF i % 2 = 1 THEN Sig(FALSE, TRUE) ELSE Sig(TRUE, TRUE) ]
    \o << Sig(TRUE, FALSE), Sig(FALSE, FALSE), Sig(TRUE, FALSE), Sig(TRUE, TRUE) >>

Waveform(routine) ==
    CASE routine = "initial" -> performInitialReset
      [] routine = "hardware" -> performHardwareReset
      [] routine = "extended" -> performExtendedReset
      [] routine = "aggressive" -> performAggressiveReset

\* the reset strategy of a resetAttempt (223-232)
Strategy(resetAttempt) ==
    IF resetAttempt = 1 THEN "hardware"
    ELSE IF resetAttempt = 2 THEN "extended"
    ELSE "aggressive"

ResetLoc(signals, en, boot) ==
    [ signals |-> signals, en |-> en, boot |-> boot,
      routine |-> "none", ret |-> "none", step |-> 1, trace |-> <<>>,
      resetAttempt |-> 0, connectionCycle |-> 0,
      syncAttempt |-> 0, portOpen |-> FALSE, later |-> <<>>, secondCalls |-> 0 ]

ResetInit ==
    /\ pc = "idle"
    /\ \E signals \in {"ok", "missing", "throws"}, en \in BOOLEAN, boot \in BOOLEAN :
         loc = ResetLoc(signals, en, boot)
    /\ stack = <<>>
    /\ res = "none"
    /\ outcome = "none"
    /\ dev = "alive"
    /\ staleB = 0
    /\ staleA = 0
    /\ active = FALSE
    /\ acc = <<>>
    /\ nPartial = 0
    /\ buf = <<>>
    /\ wire = InitWire

\* a reset routine is called; ret is where its caller goes on
EnterReset(l, routine, ret) ==
    /\ pc' = "rs_signals"
    /\ loc' = [l EXCEPT !.routine = routine, !.ret = ret, !.step = 1,
                        !.trace = <<>>]

\* handleFlash: open, getReader, getWriter, performInitialReset (194-207);
\* or open() rejects and the catch runs attemptDeviceRecovery, which calls
\* performHardwareReset on the port that is not open (325-341, 2353)
ResetHandleFlash ==
    /\ pc = "idle"
    /\ \E opens \in BOOLEAN :
         IF opens
         THEN EnterReset([loc EXCEPT !.portOpen = TRUE], "initial", "hf_loop")
         ELSE EnterReset(loc, "hardware", "hf_catch")
    /\ UNCHANGED codecRest

\* `typeof port.setSignals !== 'function'`: return
ResetUnsupported ==
    /\ pc = "rs_signals"
    /\ loc.signals = "missing"
    /\ pc' = "rs_return"
    /\ UNCHANGED <<loc, codecRest>>

\* the next setSignals call of the routine succeeds
ResetSetSignals ==
    /\ pc = "rs_signals"
    /\ loc.signals # "missing"
    /\ loc.portOpen
    /\ LET w == Waveform(loc.routine)
       IN  /\ pc' = IF loc.step = Len(w) THEN "rs_return" ELSE "rs_signals"
           /\ loc' = [loc EXCEPT !.en = w[loc.step].en,
                                 !.boot = w[loc.step].boot,
                                 !.trace = Append(@, w[loc.step]),
                                 !.step = @ + 1]
    /\ UNCHANGED codecRest

\* mutation: the error of setSignals leaves the routine and ends the session
ResetSignalsThrow_Uncaught ==
    /\ pc = "rs_signals"
    /\ \/ loc.signals = "throws"
       \/ loc.signals = "ok" /\ ~loc.portOpen
    /\ pc' = "done"
    /\ outcome' = "failed"
    /\ UNCHANGED <<loc, stack, res, envVars, wire>>

\* the next setSignals call throws: the catch of the routine logs and the
\* routine returns, the lines stay as last set
ResetSignalsThrow ==
    /\ pc = "rs_signals"
    /\ \/ loc.signals = "throws"
       \/ loc.signals = "ok" /\ ~loc.portOpen
    /\ pc' = "rs_return"
    /\ UNCHANGED <<loc, codecRest>>

\* performInitialReset returned: the first reset strategy (218-225)
ResetInitialDone ==
    /\ pc = "rs_return"
    /\ loc.ret = "hf_loop"
    /\ EnterReset([loc EXCEPT !.resetAttempt = 1], Strategy(1), "hf_sync")
    /\ UNCHANGED codecRest

\* the reset returned to handleFlash (240) or to esp32Sync (1330): the first
\* Sync of the cycle is written (1307)
ResetSyncWrite ==
    /\ pc = "rs_return"
    /\ loc.ret \in {"hf_sync", "sy_cycle"}
    /\ pc' = "rs_sync"
    /\ loc' = [loc EXCEPT !.connectionCycle = IF loc.ret = "hf_sync" THEN 0 ELSE @,
                          !.syncAttempt = 0]
    /\ wire' = Written(SyncCmd)
    /\ UNCHANGED <<stack, res, outcome, envVars>>

\* the Sync is not answered (1316-1321): the next Sync of the cycle is written
ResetSyncRetry ==
    /\ pc = "rs_sync"
    /\ loc.syncAttempt + 1 < SyncAttempts
    /\ loc' = [loc EXCEPT !.syncAttempt = @ + 1]
    /\ wire' = Written(SyncCmd)
    /\ UNCHANGED <<pc, stack, res, outcome, envVars>>

\* the Sync is answered: bootloaderSuccess
ResetSyncOk ==
    /\ pc = "rs_sync"
    /\ pc' = "rs_synced"
    /\ UNCHANGED <<loc, codecRest>>

\* no Sync of the cycle is answered: performHardwareReset between cycles
ResetSyncCycleFailed ==
    /\ pc = "rs_sync"
    /\ loc.syncAttempt + 1 = SyncAttempts
    /\ loc.connectionCycle < SyncCycles - 1
    /\ EnterReset([loc EXCEPT !.connectionCycle = @ + 1], "hardware", "sy_cycle")
    /\ UNCHANGED codecRest

\* esp32Sync threw and a reset strategy is left (250-252)
ResetSyncFailed ==
    /\ pc = "rs_sync"
    /\ loc.syncAttempt + 1 = SyncAttempts
    /\ loc.connectionCycle = SyncCycles - 1
    /\ loc.resetAttempt < maxResetAttempts
    /\ EnterReset([loc EXCEPT !.resetAttempt = @ + 1],
                  Strategy(loc.resetAttempt + 1), "hf_sync")
    /\ UNCHANGED codecRest

\* the last strategy failed (254): the catch runs attemptDeviceRecovery
ResetAllFailed ==
    /\ pc = "rs_sync"
    /\ loc.syncAttempt + 1 = SyncAttempts
    /\ loc.connectionCycle = SyncCycles - 1
    /\ loc.resetAttempt = maxResetAttempts
    /\ EnterReset(loc, "hardware", "hf_catch")
    /\ UNCHANGED codecRest

\* attemptDeviceRecovery returned: the failure is reported (343)
ResetRecovered ==
    /\ pc = "rs_return"
    /\ loc.ret = "hf_catch"
    /\ pc' = "done"
    /\ outcome' = "failed"
    /\ UNCHANGED <<loc, stack, res, envVars, wire>>

\* handleFlash is invoked while an invocation is running: the guard (171)
\* passes, connectedPort.open() rejects (194), and the catch calls
\* attemptDeviceRecovery, which calls performHardwareReset (341, 2353);
\* loc.later holds, for every later invocation, the next setSignals call of
\* its reset
SecondHandleFlash ==
    /\ pc \notin {"idle", "done"}
    /\ Len(loc.later) < MaxLaterInvocations
    /\ loc' = [loc EXCEPT !.later = Append(@, 1)]
    /\ UNCHANGED <<pc, codecRest>>

\* a setSignals call of a later invocation's performHardwareReset
SecondSetSignals ==
    /\ loc.signals # "missing"
    /\ loc.portOpen
    /\ \E i \in 1..Len(loc.later) :
         /\ loc.later[i] \in 1..Len(performHardwareReset)
         /\ loc' = [loc EXCEPT !.en = performHardwareReset[loc.later[i]].en,
                               !.boot = performHardwareReset[loc.later[i]].boot,
                               !.later[i] = @ + 1,
                               !.secondCalls = @ + 1]
    /\ UNCHANGED <<pc, codecRest>>

\* setSignals is missing, or a call throws: the reset returns, the later
\* invocation reports its failure and ends (343)
SecondAbandoned ==
    /\ \/ loc.signals = "missing"
       \/ loc.signals = "throws"
       \/ ~loc.portOpen
    /\ \E i \in 1..Len(loc.later) :
         /\ loc.later[i] \in 1..Len(performHardwareReset)
         /\ loc' = [loc EXCEPT !.later[i] = Len(performHardwareReset) + 1]
    /\ UNCHANGED <<pc, codecRest>>

ResetNext ==
    \/ SecondHandleFlash \/ SecondSetSignals \/ SecondAbandoned
    \/ ResetHandleFlash \/ ResetUnsupported \/ ResetSetSignals
    \/ ResetSignalsThrow \/ ResetInitialDone \/ ResetSyncWrite \/ ResetSyncRetry
    \/ ResetSyncOk
    \/ ResetSyncCycleFailed \/ ResetSyncFailed \/ ResetAllFailed
    \/ ResetRecovered

ResetSpec == ResetInit /\ [][ResetNext]_vars

(***************************************************************************)
(* Properties.                                                             *)
(***************************************************************************)
\* totalChunks of a region: the files of the provider use the adaptive chunk
\* size, the OTA data partition 1024
ChunkCount(r) ==
    IF r = OtaRegion THEN CeilDiv(otaDataSize, otaChunkSize)
    ELSE CeilDiv(firmwareData[r].size,
                 getAdaptiveChunkSize(firmwareData[r].size,
                                      useOtaUpdate /\ firmwareData[r].isApplication))

\* C1: within a region the FLASH_DATA frames carry the sequence numbers
\* 0, 1, 2, ... in order, a retransmission of a chunk (attempts 0..2 and the
\* one after recovery) carries the sequence number of the chunk, the region is
\* ended only after chunkCount numbers, and the numbering restarts at 0 with
\* every FLASH_BEGIN.
C1_SequenceNumbers ==
    /\ \A i \in 1..Len(wire.seqs) : wire.seqs[i] = i - 1
    /\ wire.begun > 0 => Len(wire.seqs) <= ChunkCount(wire.begun)
    /\ (pc = "fd_wait" =>
            /\ wire.last.op = CMD_FLASH_DATA
            /\ wire.last.seq = loc.sequence
            /\ wire.last.seq = loc.offset \div loc.chunkSize)
    /\ (pc = "fb_wait" => wire.seqs = <<>>)
    /\ (wire.last.op = CMD_FLASH_END /\ wire.last.flag = 1 =>
            Len(wire.seqs) = ChunkCount(wire.begun))

\* a chunk of the second region is sent for the fourth time, with its number
C1_Witness ==
    /\ pc = "fd_wait"
    /\ loc.attempt = WRITE_BLOCK_ATTEMPTS
    /\ wire.last.region = 2
    /\ wire.last.seq = 1
    /\ wire.seqs = <<0, 1>>

\* the readResponse call of a FLASH_BEGIN was rejected with
\* SECURE_BOOT_BLOCKED and the error is on its way to the catch of handleFlash
SecureBootAtBegin ==
    \/ pc = "fb_wait" /\ ~active /\ res = "sb"
    \/ pc \in {"ff_begin_ret", "ota_begin_ret"} /\ loc.thrown = "sb"

\* C2: once the response to a FLASH_BEGIN is a secure-boot rejection, the
\* client's next steps only pass the error on and report the failure: no
\* frame is written (no FLASH_BEGIN again, no recovery Sync) and no retry
\* strategy is entered (hf_catch is the catch block of handleFlash, which
\* reports the failure).
C2_SecureBootBeginFails ==
    [][ SecureBootAtBegin =>
          /\ wire'.last = wire.last
          /\ wire'.beginCount = wire.beginCount
          /\ wire'.awaited
          /\ \/ pc' = pc
             \/ pc = "fb_wait" /\ pc' = Head(stack) /\ loc'.thrown = "sb"
             \/ pc' = "hf_catch" ]_vars

\* the session failed on the rejected first FLASH_BEGIN of a region
C2_Witness ==
    /\ pc = "done"
    /\ outcome = "failed"
    /\ res = "sb"
    /\ wire.last.op = CMD_FLASH_BEGIN
    /\ wire.beginCount = 1

\* C3 (as claimed): a FLASH_DATA or FLASH_END whose response was a
\* secure-boot rejection is not attempted again (the client never stands
\* before another write of the command with that rejection as the result of
\* the attempt before).
C3_NoRetryAfterSecureBoot ==
    /\ ~ (pc = "fd_write" /\ loc.attempt = 1 /\ res = "sb")
    /\ ~ (pc = "fe_write" /\ loc.attempt > 0 /\ res = "sb")

\* C4 (as claimed): timers firing and writes completing, every handleFlash
\* run that went past its guard ends, with success shown or the failure
\* reported, whatever the device does.
C4_Terminates ==
    (pc \notin {"idle", "done"}) ~> (pc = "done" /\ outcome \in {"success", "failed"})

\* C5 (as claimed): with a device that never sends anything only Sync frames
\* are written (no FLASH_BEGIN, FLASH_DATA or FLASH_END), success is not
\* shown, the failure is reported only after maxResetAttempts calls of
\* esp32Sync of SyncCycles * SyncAttempts Sync frames each, and, timers
\* firing, every session does reach the reported failure.
C5_SyncTimeoutAsClaimed ==
    /\ [](/\ SilentIsAll
          /\ wire.last.op \in {0, CMD_SYNC}
          /\ wire.begun = 0
          /\ outcome # "success"
          /\ (outcome = "failed" =>
                loc.hfSyncs = maxResetAttempts * SyncCycles * SyncAttempts))
    /\ ((pc \notin {"idle", "done"}) ~> (pc = "done" /\ outcome = "failed"))

\* C5 (amended): the same, the count of Sync frames being that of a session
\* whose port opened: when connectedPort.open() rejects (194) the failure is
\* reported with no Sync frame written.
C5_SyncTimeout ==
    /\ [](/\ SilentIsAll
          /\ wire.last.op \in {0, CMD_SYNC}
          /\ wire.begun = 0
          /\ outcome # "success"
          /\ (outcome = "failed" =>
                loc.hfSyncs = IF loc.portOpen
                              THEN maxResetAttempts * SyncCycles * SyncAttempts
                              ELSE 0))
    /\ ((pc \notin {"idle", "done"}) ~> (pc = "done" /\ outcome = "failed"))

\* the failure was reported after 105 Sync frames to a device that is there
\* and never sent anything
C5_Witness ==
    /\ pc = "done"
    /\ outcome = "failed"
    /\ ~wire.devSent
    /\ dev # "closed"
    /\ loc.portOpen
    /\ loc.hfSyncs = maxResetAttempts * SyncCycles * SyncAttempts

\* the FLASH_DATA frames of a region of `size` bytes sent in chunks of `chunk`
DataFrames(size, chunk, region) ==
    [i \in 1..CeilDiv(size, chunk) |->
        DataCmd(Min(chunk, size - (i - 1) * chunk), i - 1, region)]

RECURSIVE RegionFrames(_)
\* the frames of the regions i..Regions of the provider's list as claimed:
\* Begin, Data in 1024-byte chunks, End(noReboot)
RegionFrames(i) ==
    IF i > Regions THEN <<>>
    ELSE <<BeginCmd(firmwareData[i].size, firmwareData[i].address, i)>>
         \o DataFrames(firmwareData[i].size, 1024, i)
         \o <<EndCmd(FALSE)>>
         \o RegionFrames(i + 1)

\* the command frames of the claimed happy path for the provider's list:
\* Sync, then Begin, Data in 1024-byte chunks, End(noReboot) for each region,
\* then End(reboot)
ClaimedHappyLog ==
    <<SyncCmd>> \o RegionFrames(1) \o <<EndCmd(TRUE)>>

IsPrefix(a, b) == Len(a) <= Len(b) /\ a = SubSeq(b, 1, Len(a))

\* C6 (as claimed): the port having opened, with the two regions of 4096
\* bytes at 0x0 and 2048 bytes at 0x10000 and a device that answers every
\* command with success, the command frames written are Sync,
\* Begin(region 1), Data 0..3 of 1024 bytes, End(noReboot), Begin(region 2),
\* Data 0, 1 of 1024 bytes, End(noReboot), End(reboot), in that order and no
\* other, and the session ends in success.
C6_HappyPathAsClaimed ==
    loc.firmware = "two-region" /\ loc.portOpen /\ wire.clean =>
        /\ IsPrefix(wire.log, ClaimedHappyLog)
        /\ (pc = "done" => wire.log = ClaimedHappyLog /\ outcome = "success")

\* C7 (as claimed): when the first two transmissions of the second chunk of a
\* region got nothing from the device and the device answers the third with a
\* success frame, that answer ends the wait of the third transmission with
\* success (and the session goes on to the next chunk).
C7_ThirdAttemptSucceeds ==
    (/\ pc = "fd_wait"
     /\ loc.sequence = 1
     /\ loc.attempt = 2
     /\ wire.heard = "ok")
    => (~active /\ Resolved(res))

\* C8: a FLASH_END written at the end of a region carries flag 1, and a
\* FLASH_END with flag 0 is on the wire only after the FLASH_END(noReboot)
\* of every region, the OTA data region included, has returned.
C8_RebootOnlyAtEnd ==
    /\ (pc = "fe_wait" /\ Head(stack) \in {"ff_end_ret", "ota_end_ret"} =>
            wire.last.op = CMD_FLASH_END /\ wire.last.flag = 1)
    /\ (wire.last.op = CMD_FLASH_END /\ wire.last.flag = 0 =>
            wire.ended = Regions + 1)

C8_Witness ==
    /\ wire.last.op = CMD_FLASH_END
    /\ wire.last.flag = 0
    /\ wire.ended = Regions + 1

\* C9: a FLASH_BEGIN on the wire is that of the region after the ones already
\* ended, with the size and address the provider's list gives at that place,
\* and a FLASH_DATA on the wire carries bytes of the region begun last, which
\* is not ended yet.
C9_RegionsInOrder ==
    /\ (wire.last.op = CMD_FLASH_BEGIN =>
            /\ wire.last.region = wire.ended + 1
            /\ (wire.last.region <= Regions =>
                    /\ wire.last.len = firmwareData[wire.last.region].size
                    /\ wire.last.address = firmwareData[wire.last.region].address))
    /\ (wire.last.op = CMD_FLASH_DATA =>
            /\ wire.last.region = wire.begun
            /\ wire.begun = wire.ended + 1)
    /\ wire.begun \in {wire.ended, wire.ended + 1}

\* data of the second region is on the wire, the first region being ended
C9_Witness ==
    /\ wire.last.op = CMD_FLASH_DATA
    /\ wire.last.region = 2
    /\ wire.ended = 1

\* C10 (as claimed): no frame is written while the wait for the response to
\* the frame written before it has not ended.
C10_NeverPipelined == ~wire.pipelined

\* reader.read() calls not yet settled: those left behind by readResponse
\* calls that ended by timeout and the one of the call being awaited
OutstandingReads == staleB + staleA + (IF active THEN 1 ELSE 0)

\* C11 (as claimed): at most one read of the reader is outstanding at any
\* time, so that what the device sends after a timeout goes to the next
\* readResponse call and not to a read of the call that timed out.
C11_OneOutstandingRead == OutstandingReads <= 1

\* C12 (as claimed): slipDecode(slipEncode(b)) returns b, without an
\* exception, for every byte sequence b.
C12_RoundTrip ==
    pc = "decoded" =>
        /\ loc.decoded.thrown = "none"
        /\ loc.decoded.bytes = loc.data

\* a frame as slipEncode must produce it: 0xC0 first and last and nowhere
\* else, every 0xDB followed by 0xDC or 0xDD
WellFramed(frame) ==
    /\ Len(frame) >= 2
    /\ frame[1] = SLIP_END
    /\ frame[Len(frame)] = SLIP_END
    /\ \A i \in 2..(Len(frame) - 1) :
         /\ frame[i] # SLIP_END
         /\ frame[i] = SLIP_ESC => frame[i + 1] \in {SLIP_ESC_END, SLIP_ESC_ESC}

\* C13: every frame slipEncode returns, for plain data and for the packets
\* of the command builders, has 0xC0 only as its first and last byte and
\* every 0xDB in it is followed by 0xDC or 0xDD.
C13_FrameMarkersEscaped ==
    /\ (pc = "encoded" => WellFramed(loc.frame))
    /\ (pc = "command" => WellFramed(loc.frame) /\ WellFramed(loc.other))

\* a command whose checksum byte is 0xC0 and whose data hold 0xC0 and 0xDB
C13_Witness ==
    /\ pc = "command"
    /\ calculateChecksum(loc.data) = SLIP_END
    /\ \E i \in 1..Len(loc.data) : loc.data[i] \in {SLIP_END, SLIP_ESC}

\* the checksum field (bytes 4..7) of the packet inside a frame
ChecksumField(frame) == SubSeq(Unslip(frame, 1, FALSE), 5, 8)

\* the XOR of a set of bit positions with 0xEF, bit by bit: bit k of the
\* result is bit k of 0xEF flipped once per byte that has bit k set
XorBit(data, k) ==
    (((239 \div (2^k)) % 2)
       + Cardinality({i \in 1..Len(data) : (data[i] \div (2^k)) % 2 = 1})) % 2

\* C14: the checksum field of a FLASH_DATA frame is 0xEF XOR-ed with the
\* bytes of the chunk and nothing else; frames of the same chunk with
\* different sequence numbers have the same checksum; an empty chunk has 0xEF.
C14_ChecksumOverChunkOnly ==
    pc = "command" =>
        /\ ChecksumField(loc.frame) = ChecksumField(loc.other)
        /\ ChecksumField(loc.frame)[2] = 0
        /\ ChecksumField(loc.frame)[3] = 0
        /\ ChecksumField(loc.frame)[4] = 0
        /\ \A k \in 0..7 :
             (ChecksumField(loc.frame)[1] \div (2^k)) % 2 = XorBit(loc.data, k)
        /\ (loc.data = <<>> => ChecksumField(loc.frame)[1] = 239)

C14_Witness ==
    /\ pc = "command"
    /\ Len(loc.data) = 2
    /\ loc.data[1] # loc.data[2]
    /\ loc.frame # loc.other

\* the input is a response frame that is classified: at least 8 bytes,
\* direction 1, and long enough for its declared size and two status bytes
Classified(r) ==
    /\ Len(r) >= 8
    /\ r[1] = 1
    /\ Len(r) >= 8 + (r[3] + 256 * r[4]) + 2

\* C15: for a classified response the outcome is success iff the
\* second-to-last byte is 0; otherwise a secure-boot rejection iff
\* (second-to-last | last << 8) is 0x0103, 0x0105, 0x0106, 0x0108 or 0x010A,
\* and a generic failure in every other case.
C15_StatusClassification ==
    pc = "classified" /\ Classified(Unslip(loc.data, 1, FALSE)) =>
        LET r == Unslip(loc.data, 1, FALSE)
            s1 == r[Len(r) - 1]
            s2 == r[Len(r)]
        IN  /\ (loc.decoded.thrown = "none" <=> s1 = 0)
            /\ (s1 # 0 =>
                  (loc.decoded.thrown = "sb" <=>
                      (s2 = 1 /\ s1 \in {3, 5, 6, 8, 10})))
            /\ (loc.decoded.thrown = "fail" <=>
                  (s1 # 0 /\ ~(s2 = 1 /\ s1 \in {3, 5, 6, 8, 10})))
            /\ (loc.decoded.thrown = "none" => loc.decoded.bytes = r)

\* a response with status bytes 0x0A 0x01 was classified
C15_Witness ==
    /\ pc = "classified"
    /\ Classified(loc.data)
    /\ loc.data[Len(loc.data) - 1] = 10
    /\ loc.data[Len(loc.data)] = 1
    /\ loc.decoded.thrown = "sb"

\* C16 (as claimed): a malformed response (here a frame that decodes to
\* fewer bytes than a header) does not make the command that received it
\* succeed: esp32FlashBegin does not return normally on it.
C16_MalformedNotSuccess ==
    ~ (/\ pc \in {"ff_begin_ret", "ota_begin_ret"}
       /\ loc.thrown = "none"
       /\ res = "ok0")

\* C17 (as claimed): when the final FLASH_END(reboot) has failed on all of
\* its attempts, handleFlash does not show success.
C17_RebootFailureFails ==
    [][ pc = "hf_reboot_ret" /\ loc.thrown # "none" => outcome' # "success" ]_vars

\* C18 (as claimed): at a terminal outcome the reader and writer locks are
\* released and the port is closed.
C18_TransportReleased ==
    pc = "done" =>
        /\ ~loc.readerLocked
        /\ ~loc.writerLocked
        /\ ~loc.portOpen

\* C19 (as claimed): when the firmware cannot be supplied the session fails
\* without device I/O: the port is not opened, no control line is toggled,
\* no frame is written.
C19_ProviderFailureNoIO ==
    pc = "done" /\ loc.provider = "missing" =>
        /\ ~loc.portOpen
        /\ loc.waveform = "none"
        /\ wire.last = NoCmd

\* a FLASH_BEGIN frame is being written
WritesBegin == pc = "fb_write" /\ pc' = "fb_wait"

\* C20 (as claimed): between consecutive FLASH_BEGIN attempts of a region a
\* recovery sync is attempted: the frame written before a repeated
\* FLASH_BEGIN is a Sync.
C20_SyncBetweenAttempts ==
    [][ WritesBegin /\ wire'.beginCount > 1 => wire.last.op = CMD_SYNC ]_vars

\* esp32FlashData gives the chunk up (the throw at 1569)
ChunkDeclaredFailed ==
    /\ pc = "fd_wait"
    /\ pc' \in {"ff_data_ret", "ota_data_ret"}
    /\ loc'.thrown = "other"

\* C21 (as claimed): the FLASH_DATA frame of a chunk is written at most
\* WRITE_BLOCK_ATTEMPTS = 3 times.
C21_AtMostThreeWrites == wire.writes <= WRITE_BLOCK_ATTEMPTS

\* C21 (amended): the FLASH_DATA frame of a chunk is written at most
\* WRITE_BLOCK_ATTEMPTS + 1 = 4 times, the three attempts of the loop and one
\* more after quickBootloaderRecovery, and the chunk is declared failed only
\* after that fourth write.
C21_BoundedChunkWrites ==
    /\ [](wire.writes <= WRITE_BLOCK_ATTEMPTS + 1)
    /\ [][ ChunkDeclaredFailed => wire.writes = WRITE_BLOCK_ATTEMPTS + 1 ]_vars

\* the fourth write of a chunk failed and the session failed with it
C21_Witness ==
    /\ pc = "done"
    /\ outcome = "failed"
    /\ wire.last.op = CMD_FLASH_DATA
    /\ wire.writes = WRITE_BLOCK_ATTEMPTS + 1

\* C22: the FLASH_BEGIN timeout is strictly increasing in the number of
\* 64 KiB erase blocks and never below 10000 ms, and the block count that
\* esp32FlashBegin passes is ceil(size / 65536), the block count of the
\* eraseSize it sends.
C22_BeginTimeoutScales ==
    pc = "begin" =>
        /\ TimeLeq(Ms(10000), loc.timeout)
        /\ loc.timeout = getEsptoolTimeout("FLASH_BEGIN", loc.blocks, 0)
        /\ \A b \in 0..loc.blocks :
              ~TimeLeq(getEsptoolTimeout("FLASH_BEGIN", b + 1, 0),
                       getEsptoolTimeout("FLASH_BEGIN", b, 0))
        /\ loc.blocks * EraseBlock = loc.command.eraseSize
        /\ loc.command.eraseSize >= loc.size
        /\ loc.command.eraseSize - loc.size < EraseBlock

\* a large erase whose size is not a multiple of the block
C22_Witness ==
    /\ pc = "begin"
    /\ loc.blocks >= LargeEraseBlocks
    /\ loc.size % EraseBlock # 0
    /\ loc.timeout = Ms(FlashBeginBase + loc.blocks * FlashBeginPerBlock)

\* a reset routine is running or has just returned on a port that has no
\* working setSignals: none, one that throws, or the port is not open
SignalsFail == loc.signals \in {"missing", "throws"} \/ ~loc.portOpen

\* the step of handleFlash or esp32Sync that follows the return of a reset
\* routine
AfterResetReturn == pc = "rs_return" /\ pc' # pc

\* the step writes a Sync frame
WritesSync == wire'.last.op = CMD_SYNC /\ wire'.owed = wire.owed + 1

\* C23 (as claimed): when setSignals is missing or throws, every reset
\* routine returns without raising and handleFlash goes on to write Sync:
\* after the initial reset the first strategy's reset and then Sync, after
\* any other reset Sync.
C23_SyncAfterEveryReset ==
    [][ /\ (pc = "rs_signals" /\ SignalsFail => pc' \in {"rs_signals", "rs_return"})
        /\ (AfterResetReturn /\ SignalsFail =>
               \/ loc.ret = "hf_loop" /\ pc' = "rs_signals"
               \/ WritesSync) ]_vars

\* C23 (amended): when setSignals is missing or throws, every reset routine
\* returns without raising.  After the initial reset handleFlash runs the
\* first strategy's reset, and after a strategy's reset and after the reset
\* between two connection cycles of esp32Sync the next step writes Sync.
\* After the reset of attemptDeviceRecovery, which the catch block runs when
\* the port did not open or the handshake failed, no Sync is written: the
\* failure is reported.
C23_ResetFailureIsSoft ==
    [][ /\ (pc = "rs_signals" /\ SignalsFail => pc' \in {"rs_signals", "rs_return"})
        /\ (AfterResetReturn /\ SignalsFail /\ loc.ret = "hf_loop" =>
               pc' = "rs_signals" /\ loc'.routine = "hardware" /\ wire' = wire)
        /\ (AfterResetReturn /\ SignalsFail /\ loc.ret \in {"hf_sync", "sy_cycle"} =>
               pc' = "rs_sync" /\ WritesSync)
        /\ (AfterResetReturn /\ SignalsFail /\ loc.ret = "hf_catch" =>
               pc' = "done" /\ outcome' = "failed" /\ wire' = wire) ]_vars

\* the port did not open, setSignals threw in the reset of the recovery and
\* the failure was reported with no frame written
C23_Witness ==
    /\ pc = "done"
    /\ outcome = "failed"
    /\ loc.signals = "ok"
    /\ ~loc.portOpen
    /\ loc.routine = "hardware"
    /\ loc.trace = <<>>
    /\ wire.last = NoCmd

\* the positions of a waveform at which reset is released (EN false to true)
Releases(t) == { i \in 2..Len(t) : ~t[i - 1].en /\ t[i].en }

\* the last release of reset happens with boot-select held low, boot-select
\* is released only afterwards, and the lines end high
EntryShape(t) ==
    /\ Releases(t) # {}
    /\ LET k == CHOOSE i \in Releases(t) : \A j \in Releases(t) : j <= i
       IN  /\ ~t[k - 1].boot
           /\ ~t[k].boot
           /\ \E j \in (k + 1)..Len(t) : t[j].boot
    /\ t[Len(t)].en
    /\ t[Len(t)].boot

EntryRoutines == {"hardware", "extended", "aggressive"}

\* C24 (as claimed): whenever one of the three bootloader-entry routines has
\* driven the lines and returned, the waveform it drove has the entry shape
\* and the lines are left with EN = true and BOOT-SELECT = true.
C24_EveryWaveformEnters ==
    pc = "rs_return" /\ loc.routine \in EntryRoutines /\ loc.trace # <<>> =>
        EntryShape(loc.trace)

\* C25: a FLASH_BEGIN is written for the region that is open only while no
\* FLASH_DATA frame of that region has been written, and never for a region
\* before it.
C25_BeginOnlyBeforeData ==
    [][ WritesBegin =>
          /\ wire'.last.region >= wire.begun
          /\ (wire'.last.region = wire.begun => wire.seqs = <<>>) ]_vars

\* the FLASH_BEGIN of a region was repeated, then both chunks of its data
\* were written
C25_Witness ==
    /\ wire.beginCount = 2
    /\ wire.begun = 2
    /\ Len(wire.seqs) >= 2

\* C26: for every file size and every flag combination getAdaptiveChunkSize
\* returns at most the protocol default of 1024 bytes.
C26_ChunkSizeAtMostDefault ==
    pc = "chunked" => loc.chunkSize <= BeginPacketSize

\* C27: a handleFlash invocation that starts while another one is running
\* toggles no control line.
C27_SecondInvocationInert == loc.secondCalls = 0

\* the FLASH_END of the open region has been written
WritingRegionEnd ==
    /\ wire.last.op = CMD_FLASH_END
    /\ wire.ended < wire.begun

\* C28: the number of distinct FLASH_DATA chunks sent for a region equals
\* the numPackets field of the region's FLASH_BEGIN, and no chunk is longer
\* than its packetSize field.
C28_LayoutMatchesTransfer ==
    /\ (wire.last.op = CMD_FLASH_DATA => wire.last.len <= wire.announced.packetSize)
    /\ (WritingRegionEnd => Len(wire.seqs) = wire.announced.numPackets)

\* esp32FlashData is running: a region has been begun and not yet ended
RegionOpen ==
    \E i \in 1..Len(stack) : stack[i] \in {"ff_data_ret", "ota_data_ret"}

\* esp32Sync calls performHardwareReset between two connection cycles
ResetsBetweenCycles ==
    /\ pc = "sy_wait"
    /\ pc' = "sy_write"
    /\ loc'.connectionCycle = loc.connectionCycle + 1
    /\ loc'.waveform = "hardware"

\* C29: no hardware reset happens between the successful FLASH_BEGIN of a
\* region and that region's FLASH_END.
C29_NoResetWhileRegionOpen ==
    [][ RegionOpen => ~ResetsBetweenCycles ]_vars

\* the erase range [address, address + eraseSize) of a FLASH_BEGIN meets the
\* bytes [lo, hi) of a file
Erases(cmd, range) ==
    /\ cmd.address < range.hi
    /\ range.lo < cmd.address + cmd.eraseSize

\* C30: the range [offset, offset + eraseSize) of a FLASH_BEGIN, the one of
\* updateOtaDataPartition included, does not overlap the address range of
\* any region that was already written and ended in the session.
C30_NoEraseOfWrittenData ==
    pc \in {"region", "ota_region"} =>
        \A i \in 1..Len(loc.written) : ~Erases(loc.command, loc.written[i])

\* the offsets of the parts of firmwareConfig marked skipInOta
ProtectedOffsets ==
    { firmwareParts[i].offset : i \in { j \in 1..Len(firmwareParts) : firmwareParts[j].skipInOta } }

\* C31: in OTA mode no FLASH_BEGIN of the session has the offset of a part
\* marked skipInOta (0x0, 0xA000, 0x910000), and the application is begun at
\* the ota_0 address 0x110000.
C31_NoWriteToProtectedPart ==
    pc \in {"region", "ota_region"} =>
        /\ loc.command.address \notin ProtectedOffsets
        /\ (pc = "region" /\ loc.files[loc.command.region].isApplication =>
               loc.command.address = ota0Partition)

\* C32: esp32Sync returns true only after a complete response frame of
\* direction 0x01 and opcode 0x08 with success status was received.
C32_SyncSuccessNeedsSyncResponse ==
    pc = "sy_wait" /\ ~active /\ Resolved(res) => wire.got = CMD_SYNC

\* a FLASH_BEGIN, FLASH_DATA or FLASH_END is about to be taken as successful
CommandSucceeds ==
    /\ pc \in {"fb_wait", "fd_wait", "fe_wait"}
    /\ ~active
    /\ Resolved(res)

\* C33: a response the device produced for an earlier command (a frame of
\* another opcode) is never accepted as the success response of a later
\* FLASH_BEGIN, FLASH_DATA or FLASH_END.
C33_NoStaleResponseAccepted ==
    CommandSucceeds => wire.got \in {0, wire.last.op}

\* C34: whatever way the transport cuts the byte stream of a response into
\* chunks, readResponse resolves with the decoding of the one complete frame:
\* the same for every chunking, not on a chunk that holds only the opening
\* 0xC0, and also when further bytes follow the frame in its chunk.
C34_ReassemblyIgnoresChunking ==
    pc = "reassembled" =>
        /\ loc.split = loc.decoded
        /\ loc.decoded = slipDecode(loc.frame)

\* esp32Sync returns to its caller
SyncReturns == pc = "sy_wait" /\ pc' \notin {"sy_wait", "sy_write"}

\* C35 (as claimed): a call of esp32Sync writes at most 35 Sync frames
\* (5 connection cycles of 7 attempts) and runs the hardware reset at most 4
\* times, after each cycle except the last, and fails only after all of
\* them; and when, nothing having come from the device before, a success
\* response to Sync arrives while the k-th attempt of the call is awaited,
\* that attempt's wait ends with success, so that the call returns after
\* exactly k Sync frames and writes no more.
C35_SyncBudget ==
    /\ [](loc.syncWrites <= SyncCycles * SyncAttempts /\ loc.syncResets <= SyncCycles - 1)
    /\ [](pc = "sy_wait" /\ wire.syncHeard = "ok" => ~active /\ Resolved(res))
    /\ [][ SyncReturns =>
             /\ loc.syncWrites = loc.connectionCycle * SyncAttempts + loc.syncAttempt + 1
             /\ loc.syncResets = loc.connectionCycle
             /\ wire.last.op = CMD_SYNC
             /\ wire'.last = wire.last
             /\ (loc'.thrown = "none" <=> Resolved(res))
             /\ (loc'.thrown # "none" =>
                    /\ loc.syncWrites = SyncCycles * SyncAttempts
                    /\ loc.syncResets = SyncCycles - 1) ]_vars

\* C36: after a large erase, when the verifying quick sync gets no response,
\* esp32FlashBegin runs the esp32Sync recovery before it returns: no
\* FLASH_DATA is written to a loader that failed the verification without a
\* recovery attempt.
C36_FailedVerificationRecovers ==
    pc \in {"begun", "data"} /\ loc.verified = "false" => loc.recovered

\* C37: after a FLASH_END frame with the reboot flag has been written, no
\* further command frame is written in the session.
C37_RebootCommandedOnce == wire.afterReboot = 0

\* the user invokes handleFlash again after a failed session that had
\* opened the port
TriesAgain ==
    /\ pc = "done"
    /\ outcome = "failed"
    /\ loc.portOpen
    /\ loc'.recovering = loc.recovering + 1

\* C38: after a session ended in failure, a new handleFlash invocation on
\* the same flasher object and port gets past port opening and reader/writer
\* acquisition and goes on towards the Sync phase.
C38_RetryReachesSync ==
    [][ TriesAgain => pc' = "hf_reset" ]_vars

\* C39: for every total file size the response timeout of attempt k + 1 of
\* a FLASH_DATA chunk, the post-recovery attempt included, is at least the
\* timeout of attempt k.
C39_TimeoutNeverShrinks ==
    pc = "timeouts" =>
        \A k \in 1..WRITE_BLOCK_ATTEMPTS :
            TimeLeq(loc.timeouts[k], loc.timeouts[k + 1])

\* C40: for every total file size and every attempt of a chunk, the first
\* and the post-recovery attempt included, the timeout passed to
\* readResponse is at most 60000 ms.
C40_TimeoutAtMostMaximum ==
    pc = "timeouts" =>
        \A k \in 1..(WRITE_BLOCK_ATTEMPTS + 1) :
            TimeLeq(loc.timeouts[k], Ms(60000))

====
